---- MODULE Spec2Model ----
(***************************************************************************)
(* ASGarD: distribution plan, message schedule, row reduction, exchange    *)
(* and task assignment (src/src/distribution.cpp, src/unnamed/part_000).   *)
(* The model is of the build with ASGARD_USE_MPI defined.                  *)
(***************************************************************************)
EXTENDS Integers, Sequences, FiniteSets, TLC

VARIABLES
  table_size,   \* table.size(), the number N of elements
  num_ranks,    \* the rank count handed to get_plan
  status,       \* get_plan: "input" | "plan" | "rejected"; the operation
                \* every rank of the plan calls: "reduce" | "exchange"
  plan,         \* the distribution_plan: rank -> element_subgrid, <<>> if none
  segment_size, \* degrees of freedom per element
  eager,        \* TRUE: MPI_Send returns once the data is buffered;
                \* FALSE: MPI_Send returns once the matching receive is posted
  pc,           \* rank -> position in reduce_results / exchange_results
  my_messages,  \* rank -> message_lists[my_rank] of exchange_results
  msg_index,    \* rank -> index of the next message of the loop
  source,       \* rank -> the source vector of the call
  dest,         \* rank -> the dest vector of the call
  written,      \* rank -> how often each entry of dest was written
  chan,         \* <<sender, receiver>> -> data sent and not yet received
  comm,         \* rank -> members of its row communicator, {} if none
  calls,        \* transport calls made: [send, receive, collective]
  num_tasks,    \* the task count handed to assign_elements_to_tasks
  task_list,    \* the tasks it returned, <<>> if none
  pde,          \* the PDE of get_num_tasks: [degree, num_dims, num_terms]
  sizeof_P,     \* sizeof(P) of the precision P, in bytes
  rank_size_MB, \* the memory ceiling handed to get_num_tasks
  world_pc,     \* world rank -> index of its current call in main
  global_comm,  \* world rank -> members of distro_handle.global_comm
  world_plan,   \* world rank -> the plan main built on it, <<>> if none
  world_ops,    \* world rank -> the operations it took part in
  finalize_syncs, \* TRUE: MPI_Finalize returns once every world rank called it
  wheel_memory, \* rank -> the wheels as its last generate_messages left them
  schedules,    \* the message lists returned by the calls so far
  sched_calls,  \* rank -> its number of generate_messages calls
  call_index,   \* rank -> index of its next transport call
  nonsuccess,   \* the <<rank, call index>> that returned non-success
  running,      \* the ranks that were not terminated
  options,      \* the options of the element table: [num_dims, level,
                \* full_grid]
  elements,     \* the element table: index i holds elements[i + 1]
  lookup,       \* the inverse map of the table: coordinate -> index
  query,        \* the arguments of the call on the table
  answer,       \* what the call returned
  step_pc,      \* rank -> index of its next call in explicit_time_advance
  host_space,   \* rank -> the host_workspace: [x, x_orig, fx, reduced_fx,
                \* result_1, result_2, result_3]
  contributed,  \* rank -> the fx it put into its row reductions, in order
  sent,         \* rank -> the reduced_fx it sent in its exchanges, in order
  step_log,     \* rank -> the calls it has returned from, in order
  A,            \* static A of implicit_time_advance: [built, factored]
  ipiv,         \* static ipiv: the call whose factorization filled it, 0 if none
  first_time,   \* static first_time
  solver,       \* the solve_opts the calls are made with
  implicit_log  \* the calls of implicit_time_advance so far

planvars == <<table_size, num_ranks, status, plan>>
runvars  == <<segment_size, eager, pc, my_messages, msg_index, source, dest,
              written, chan, comm, calls>>
taskvars == <<num_tasks, task_list>>
sizevars == <<pde, sizeof_P, rank_size_MB>>
worldvars == <<world_pc, global_comm, world_plan, world_ops, finalize_syncs>>
schedvars == <<wheel_memory, schedules, sched_calls>>
failvars == <<call_index, nonsuccess, running>>
tablevars == <<options, elements, lookup, query, answer>>
stepvars == <<step_pc, host_space, contributed, sent, step_log>>
implicitvars == <<A, ipiv, first_time, solver, implicit_log>>
vars == <<planvars, runvars, taskvars, sizevars, worldvars, schedvars,
          failvars, tablevars, stepvars, implicitvars>>

----------------------------------------------------------------------------
(* Bounds of the model *)

MaxTable == 8      \* table sizes of the get_plan specification
MaxRanks == 9      \* rank counts of the get_plan specification
MaxRunTable == 7   \* table sizes of the reduction and exchange
MaxRunRanks == 6   \* rank counts of the reduction and exchange
MaxSegment == 2    \* segment sizes of the exchange
MaxTaskTable == 6  \* table sizes of the task assignment
MaxTasks == 9      \* task counts of the task assignment

----------------------------------------------------------------------------
(* Integer helpers of <cmath> / <algorithm> *)

Min(a, b) == IF a < b THEN a ELSE b
Max(a, b) == IF a > b THEN a ELSE b

\* std::floor(std::sqrt(n)) for n >= 0
FloorSqrt(n) == CHOOSE k \in 0..n : k * k <= n /\ (k + 1) * (k + 1) > n

\* std::sqrt(n) == std::floor(std::sqrt(n))
IsPerfectSquare(n) == \E k \in 0..n : k * k = n

----------------------------------------------------------------------------
(* distribution.cpp: the plan *)

\* variant: only even counts are kept
num_effective_ranks_EvenOnly(n) == IF n % 2 = 0 THEN n ELSE n - 1

num_effective_ranks(n) ==
  IF IsPerfectSquare(n) \/ n % 2 = 0 THEN n ELSE n - 1

\* cols = round(sqrt(num_ranks)), lowered until it divides num_ranks
RoundSqrt(n) ==
  LET k == FloorSqrt(n) IN IF n <= k * k + k THEN k ELSE k + 1

get_num_subgrid_cols(n) ==
  LET first == RoundSqrt(n)
  IN  CHOOSE c \in 1..first :
        /\ n % c = 0
        /\ \A d \in (c + 1)..first : n % d # 0

element_subgrid(row_start, row_stop, col_start, col_stop) ==
  [row_start |-> row_start, row_stop |-> row_stop,
   col_start |-> col_start, col_stop |-> col_stop]

\* the assertions of get_subgrid
\* variant: the table size is not compared with the rank count
get_subgrid_asserts_NoSizeCheck(n, my_rank, size) ==
  /\ n > 0
  /\ (n % 2 = 0 \/ n = 1 \/ IsPerfectSquare(n))
  /\ my_rank >= 0
  /\ my_rank < n

get_subgrid_asserts(n, my_rank, size) ==
  /\ n > 0
  /\ (n % 2 = 0 \/ n = 1 \/ IsPerfectSquare(n))
  /\ my_rank >= 0
  /\ my_rank < n
  /\ size > n

\* variant: the bands that take an extra element are not widened
get_subgrid_NoExtra(n, my_rank, size) ==
  IF n = 1 THEN element_subgrid(0, size - 1, 0, size - 1)
  ELSE
    LET num_subgrid_cols == get_num_subgrid_cols(n)
        num_subgrid_rows == n \div num_subgrid_cols
        grid_row_index   == my_rank \div num_subgrid_cols
        grid_col_index   == my_rank % num_subgrid_cols
        left_over_cols   == size % num_subgrid_cols
        subgrid_width    == size \div num_subgrid_cols
        left_over_rows   == size % num_subgrid_rows
        subgrid_height   == size \div num_subgrid_rows
        start_col == grid_col_index * subgrid_width
                       + Min(grid_col_index, left_over_cols)
        start_row == grid_row_index * subgrid_height
                       + Min(grid_row_index, left_over_rows)
        stop_col  == start_col + subgrid_width - 1
        stop_row  == start_row + subgrid_height - 1
    IN  element_subgrid(start_row, stop_row, start_col, stop_col)

\* variant: the whole remainder goes to the last band
get_subgrid_RemainderLast(n, my_rank, size) ==
  IF n = 1 THEN element_subgrid(0, size - 1, 0, size - 1)
  ELSE
    LET num_subgrid_cols == get_num_subgrid_cols(n)
        num_subgrid_rows == n \div num_subgrid_cols
        grid_row_index   == my_rank \div num_subgrid_cols
        grid_col_index   == my_rank % num_subgrid_cols
        subgrid_width    == size \div num_subgrid_cols
        subgrid_height   == size \div num_subgrid_rows
        start_col == grid_col_index * subgrid_width
        start_row == grid_row_index * subgrid_height
        stop_col  == IF grid_col_index = num_subgrid_cols - 1
                     THEN size - 1 ELSE start_col + subgrid_width - 1
        stop_row  == IF grid_row_index = num_subgrid_rows - 1
                     THEN size - 1 ELSE start_row + subgrid_height - 1
    IN  element_subgrid(start_row, stop_row, start_col, stop_col)

get_subgrid(n, my_rank, size) ==
  IF n = 1 THEN element_subgrid(0, size - 1, 0, size - 1)
  ELSE
    LET num_subgrid_cols == get_num_subgrid_cols(n)
        num_subgrid_rows == n \div num_subgrid_cols
        grid_row_index   == my_rank \div num_subgrid_cols
        grid_col_index   == my_rank % num_subgrid_cols
        left_over_cols   == size % num_subgrid_cols
        subgrid_width    == size \div num_subgrid_cols
        left_over_rows   == size % num_subgrid_rows
        subgrid_height   == size \div num_subgrid_rows
        start_col == grid_col_index * subgrid_width
                       + Min(grid_col_index, left_over_cols)
        start_row == grid_row_index * subgrid_height
                       + Min(grid_row_index, left_over_rows)
        stop_col  == start_col + subgrid_width
                       + (IF left_over_cols > grid_col_index THEN 1 ELSE 0) - 1
        stop_row  == start_row + subgrid_height
                       + (IF left_over_rows > grid_row_index THEN 1 ELSE 0) - 1
    IN  element_subgrid(start_row, stop_row, start_col, stop_col)

\* the assertions of get_plan
\* variant: the table size is not compared with the rank count
get_plan_asserts_NoSizeCheck(n, size) == n > 0

get_plan_asserts(n, size) == n > 0 /\ size > n

\* the plan get_plan returns when its assertions hold
get_plan(n, size) ==
  LET num_splits == num_effective_ranks(n)
  IN  [i \in 0..(num_splits - 1) |-> get_subgrid(num_splits, i, size)]

plan_size(p) == Cardinality(DOMAIN p)

nrows(g) == g.row_stop - g.row_start + 1
ncols(g) == g.col_stop - g.col_start + 1

----------------------------------------------------------------------------
(* Specification of get_plan: the inputs are drawn in Init, GetPlan applies *)
(* the function, Reject is the failed assertion.                            *)

NoPlan == <<>>

\* no reduction or exchange is running
Idle ==
  /\ segment_size = 1
  /\ eager = FALSE
  /\ pc = <<>>
  /\ my_messages = <<>>
  /\ msg_index = <<>>
  /\ source = <<>>
  /\ dest = <<>>
  /\ written = <<>>
  /\ chan = <<>>
  /\ comm = <<>>
  /\ calls = [send |-> 0, receive |-> 0, collective |-> 0]

\* no task assignment was asked for
NoTasks ==
  /\ num_tasks = 0
  /\ task_list = <<>>

\* no task count was asked for
NoSizes ==
  /\ pde = [degree |-> 1, num_dims |-> 1, num_terms |-> 1]
  /\ sizeof_P = 8
  /\ rank_size_MB = 1

\* main is not running
NoWorld ==
  /\ world_pc = <<>>
  /\ global_comm = <<>>
  /\ world_plan = <<>>
  /\ world_ops = <<>>
  /\ finalize_syncs = FALSE

\* no message schedule was asked for
NoSchedule ==
  /\ wheel_memory = <<>>
  /\ schedules = {}
  /\ sched_calls = <<>>

\* no transport call is followed
NoFailures ==
  /\ call_index = <<>>
  /\ nonsuccess = {}
  /\ running = {}

\* no element table is in use
NoTable ==
  /\ options = [num_dims |-> 1, level |-> 0, full_grid |-> FALSE]
  /\ elements = <<>>
  /\ lookup = <<>>
  /\ query = <<>>
  /\ answer = <<>>

\* explicit_time_advance is not running
NoSteps ==
  /\ step_pc = <<>>
  /\ host_space = <<>>
  /\ contributed = <<>>
  /\ sent = <<>>
  /\ step_log = <<>>

\* implicit_time_advance was not called
NoSystem ==
  /\ A = [built |-> 0, factored |-> FALSE]
  /\ ipiv = 0
  /\ first_time = TRUE
  /\ solver = "direct"
  /\ implicit_log = <<>>

PlanInit ==
  /\ NoSystem
  /\ NoSteps
  /\ table_size \in 0..MaxTable
  /\ num_ranks \in (-1)..MaxRanks
  /\ status = "input"
  /\ plan = NoPlan
  /\ Idle
  /\ NoTasks
  /\ NoSizes
  /\ NoWorld
  /\ NoSchedule
  /\ NoFailures
  /\ NoTable

\* get_plan runs to its return only if no assertion on the way fails
get_plan_accepts(n, size) ==
  /\ get_plan_asserts(n, size)
  /\ \A i \in 0..(num_effective_ranks(n) - 1) :
       get_subgrid_asserts(num_effective_ranks(n), i, size)

GetPlan ==
  /\ status = "input"
  /\ get_plan_accepts(num_ranks, table_size)
  /\ plan' = get_plan(num_ranks, table_size)
  /\ status' = "plan"
  /\ UNCHANGED <<implicitvars, stepvars, table_size, num_ranks, runvars, taskvars, sizevars, worldvars, schedvars, failvars, tablevars>>

RejectPlan ==
  /\ status = "input"
  /\ ~get_plan_accepts(num_ranks, table_size)
  /\ status' = "rejected"
  /\ UNCHANGED <<implicitvars, stepvars, table_size, num_ranks, plan, runvars, taskvars, sizevars, worldvars, schedvars, failvars, tablevars>>

PlanNext == GetPlan \/ RejectPlan

PlanSpec == PlanInit /\ [][PlanNext]_vars

----------------------------------------------------------------------------
(* Claims about the plan, checked under PlanSpec *)

InSubgrid(g, row, col) ==
  /\ g.row_start <= row /\ row <= g.row_stop
  /\ g.col_start <= col /\ col <= g.col_stop

\* C3. Tiling: for 0 < num_ranks < N the subgrids of the plan lie inside
\* [0,N) x [0,N) and every pair (row, col) lies in exactly one subgrid.
C3_Tiling ==
  (status = "plan" /\ 0 < num_ranks /\ num_ranks < table_size) =>
    /\ \A r \in DOMAIN plan :
         /\ 0 <= plan[r].row_start /\ plan[r].row_stop <= table_size - 1
         /\ 0 <= plan[r].col_start /\ plan[r].col_stop <= table_size - 1
    /\ \A row \in 0..(table_size - 1), col \in 0..(table_size - 1) :
         Cardinality({r \in DOMAIN plan : InSubgrid(plan[r], row, col)}) = 1

C3_Witness ==
  /\ status = "plan"
  /\ plan_size(plan) = 6
  /\ table_size = 8

\* C5. Effective rank count: a call with 0 < num_ranks < N returns a plan whose
\* rank ids are exactly 0..E-1, E = num_ranks when num_ranks is even or a
\* perfect square and num_ranks - 1 otherwise; num_ranks = 1 gives one subgrid
\* covering the whole table.
C5_Effective_E ==
  IF num_ranks % 2 = 0 \/ (\E k \in 1..num_ranks : k * k = num_ranks)
  THEN num_ranks ELSE num_ranks - 1

C5_EffectiveRanks ==
  (status # "input" /\ 0 < num_ranks /\ num_ranks < table_size) =>
    /\ status = "plan"
    /\ DOMAIN plan = 0..(C5_Effective_E - 1)
    /\ num_ranks = 1 =>
         plan[0] = element_subgrid(0, table_size - 1, 0, table_size - 1)

C5_Witness ==
  /\ status = "plan"
  /\ num_ranks = 3
  /\ DOMAIN plan = 0..1

\* C6. Even split: with k bands over N elements, band 0 starts at 0, band i
\* starts right after band i-1, and band i holds floor(N/k) + 1 elements when
\* i < N mod k and floor(N/k) elements otherwise.
BandSize(i, k) ==
  (table_size \div k) + (IF i < table_size % k THEN 1 ELSE 0)

C6_EvenSplit ==
  status = "plan" =>
    LET k_cols == get_num_subgrid_cols(plan_size(plan))
        k_rows == plan_size(plan) \div k_cols
    IN  \A r \in DOMAIN plan :
          LET gr == r \div k_cols
              gc == r % k_cols
          IN  /\ nrows(plan[r]) = BandSize(gr, k_rows)
              /\ ncols(plan[r]) = BandSize(gc, k_cols)
              /\ plan[r].row_start =
                   (IF gr = 0 THEN 0 ELSE plan[r - k_cols].row_stop + 1)
              /\ plan[r].col_start =
                   (IF gc = 0 THEN 0 ELSE plan[r - 1].col_stop + 1)

C6_Witness ==
  /\ status = "plan"
  /\ plan_size(plan) = 4
  /\ table_size = 7
  /\ nrows(plan[0]) = 4
  /\ nrows(plan[3]) = 3

\* C7. get_plan rejects every call with num_ranks >= table.size() or
\* num_ranks <= 0, and each subgrid of a returned plan has at least one row
\* and one column.
C7_Rejects ==
  /\ (status # "input" /\ (num_ranks >= table_size \/ num_ranks <= 0)) =>
       (status = "rejected" /\ plan = NoPlan)
  /\ status = "plan" =>
       \A r \in DOMAIN plan : nrows(plan[r]) >= 1 /\ ncols(plan[r]) >= 1

C7_Witness ==
  /\ status = "rejected"
  /\ num_ranks = 3
  /\ table_size = 3

----------------------------------------------------------------------------
(* distribution.cpp: the message schedule.  Bands and ranks are numbered    *)
(* from 0 as in the code; a std::vector is a sequence indexed from 1.       *)

grid_limits(start, stop) == [start |-> start, stop |-> stop]

message(message_dir, target, range) ==
  [message_dir |-> message_dir, target |-> target, range |-> range]

\* first index of band b (1-based position in its list of stop indices)
BandStart(boundaries, b) == IF b = 1 THEN 0 ELSE boundaries[b - 1] + 1

\* variant: a row band is taken only if the column band starts inside it
find_column_dependencies_StartOnly(row_boundaries, column_boundaries) ==
  [c \in 1..Len(column_boundaries) |->
     LET col_start  == BandStart(column_boundaries, c)
         column_end == column_boundaries[c]
         Entry(r) ==
           LET row_start == BandStart(row_boundaries, r)
               row_end   == row_boundaries[r]
           IN  [row    |-> r - 1,
                limits |-> grid_limits(Max(row_start, col_start),
                                       Min(row_end, column_end)),
                hit    |-> col_start >= row_start /\ col_start <= row_end]
         Hit(e) == e.hit
     IN  SelectSeq([r \in 1..Len(row_boundaries) |-> Entry(r)], Hit)]

\* the rows_to_range of every column band: its row bands in ascending order
find_column_dependencies(row_boundaries, column_boundaries) ==
  [c \in 1..Len(column_boundaries) |->
     LET col_start  == BandStart(column_boundaries, c)
         column_end == column_boundaries[c]
         Entry(r) ==
           LET row_start == BandStart(row_boundaries, r)
               row_end   == row_boundaries[r]
           IN  [row    |-> r - 1,
                limits |-> grid_limits(Max(row_start, col_start),
                                       Min(row_end, column_end)),
                hit    |-> \/ (col_start >= row_start /\ col_start <= row_end)
                           \/ (row_start >= col_start /\ row_start <= column_end)]
         Hit(e) == e.hit
     IN  SelectSeq([r \in 1..Len(row_boundaries) |-> Entry(r)], Hit)]

\* round_robin_wheel::spin: the index returned and the index kept
spin_value(current_index) == current_index

\* variant: the wheel does not move
spin_next_Stuck(current_index, size) == current_index

spin_next(current_index, size) ==
  IF current_index + 1 = size THEN 0 ELSE current_index + 1

\* variant: the send is put at the head of the sender's list
enqueue_pair_SendFirst(st, c, dep, r, num_cols) ==
  LET receiver_rank == r * num_cols + c
      local         == dep.row = r
      sender_rank   == IF local THEN receiver_rank
                       ELSE dep.row * num_cols + spin_value(st.wheels[dep.row])
      wheels1       == IF local THEN st.wheels
                       ELSE [st.wheels EXCEPT
                               ![dep.row] = spin_next(@, num_cols)]
      incoming      == message("receive", sender_rank, dep.limits)
      outgoing      == message("send", receiver_rank, dep.limits)
      messages1     == [st.messages EXCEPT
                          ![receiver_rank] = Append(@, incoming)]
      messages2     == [messages1 EXCEPT
                          ![sender_rank] = <<outgoing>> \o @]
  IN  [wheels |-> wheels1, messages |-> messages2]

\* variant: the send is addressed to the first rank of the receiver's row
enqueue_pair_WrongTarget(st, c, dep, r, num_cols) ==
  LET receiver_rank == r * num_cols + c
      local         == dep.row = r
      sender_rank   == IF local THEN receiver_rank
                       ELSE dep.row * num_cols + spin_value(st.wheels[dep.row])
      wheels1       == IF local THEN st.wheels
                       ELSE [st.wheels EXCEPT
                               ![dep.row] = spin_next(@, num_cols)]
      incoming      == message("receive", sender_rank, dep.limits)
      outgoing      == message("send", IF local THEN receiver_rank
                                       ELSE r * num_cols, dep.limits)
      messages1     == [st.messages EXCEPT
                          ![receiver_rank] = Append(@, incoming)]
      messages2     == [messages1 EXCEPT
                          ![sender_rank] = Append(@, outgoing)]
  IN  [wheels |-> wheels1, messages |-> messages2]

\* variant: the sender is taken from the wheel of the row for every receiver
enqueue_pair_AlwaysWheel(st, c, dep, r, num_cols) ==
  LET receiver_rank == r * num_cols + c
      sender_rank   == dep.row * num_cols + spin_value(st.wheels[dep.row])
      wheels1       == [st.wheels EXCEPT ![dep.row] = spin_next(@, num_cols)]
      incoming      == message("receive", sender_rank, dep.limits)
      outgoing      == message("send", receiver_rank, dep.limits)
      messages1     == [st.messages EXCEPT
                          ![receiver_rank] = Append(@, incoming)]
      messages2     == [messages1 EXCEPT
                          ![sender_rank] = Append(@, outgoing)]
  IN  [wheels |-> wheels1, messages |-> messages2]

\* variant: the send of a range held by another row is not put on a list
enqueue_pair_NoSend(st, c, dep, r, num_cols) ==
  LET receiver_rank == r * num_cols + c
      local         == dep.row = r
      sender_rank   == IF local THEN receiver_rank
                       ELSE dep.row * num_cols + spin_value(st.wheels[dep.row])
      wheels1       == IF local THEN st.wheels
                       ELSE [st.wheels EXCEPT
                               ![dep.row] = spin_next(@, num_cols)]
      incoming      == message("receive", sender_rank, dep.limits)
      outgoing      == message("send", receiver_rank, dep.limits)
      messages1     == [st.messages EXCEPT
                          ![receiver_rank] = Append(@, incoming)]
      messages2     == IF local
                       THEN [messages1 EXCEPT ![sender_rank] = Append(@, outgoing)]
                       ELSE messages1
  IN  [wheels |-> wheels1, messages |-> messages2]

\* body of the innermost loop of dependencies_to_messages: the receive is
\* pushed on the receiver's list, then the send on the sender's list
enqueue_pair(st, c, dep, r, num_cols) ==
  LET receiver_rank == r * num_cols + c
      local         == dep.row = r
      sender_rank   == IF local THEN receiver_rank
                       ELSE dep.row * num_cols + spin_value(st.wheels[dep.row])
      wheels1       == IF local THEN st.wheels
                       ELSE [st.wheels EXCEPT
                               ![dep.row] = spin_next(@, num_cols)]
      incoming      == message("receive", sender_rank, dep.limits)
      outgoing      == message("send", receiver_rank, dep.limits)
      messages1     == [st.messages EXCEPT
                          ![receiver_rank] = Append(@, incoming)]
      messages2     == [messages1 EXCEPT
                          ![sender_rank] = Append(@, outgoing)]
  IN  [wheels |-> wheels1, messages |-> messages2]

\* for (r = 0; r < row_boundaries.size(); ++r)
RECURSIVE rank_loop(_, _, _, _, _, _)
rank_loop(st, c, dep, r, num_rows, num_cols) ==
  IF r = num_rows THEN st
  ELSE rank_loop(enqueue_pair(st, c, dep, r, num_cols),
                 c, dep, r + 1, num_rows, num_cols)

\* for (auto const &[row, limits] : dependencies)
RECURSIVE dependency_loop(_, _, _, _, _, _)
dependency_loop(st, c, dependencies, j, num_rows, num_cols) ==
  IF j > Len(dependencies) THEN st
  ELSE dependency_loop(
         rank_loop(st, c, dependencies[j], 0, num_rows, num_cols),
         c, dependencies, j + 1, num_rows, num_cols)

\* for (c = 0; c < col_dependencies.size(); c++)
RECURSIVE column_loop(_, _, _, _, _)
column_loop(st, col_dependencies, c, num_rows, num_cols) ==
  IF c = num_cols THEN st
  ELSE column_loop(
         dependency_loop(st, c, col_dependencies[c + 1], 1, num_rows, num_cols),
         col_dependencies, c + 1, num_rows, num_cols)

\* round_robin_wheel(size): current_index(0)
round_robin_wheel == 0

\* variant: the wheels are kept from the call before
row_round_robin_wheels_Kept(left, num_rows) == left

\* the vector of wheels, one per row, built at the start of the call; what
\* the call before left in its wheels is gone with its local vector
row_round_robin_wheels(left, num_rows) ==
  [i \in 0..(num_rows - 1) |-> round_robin_wheel]

\* the wheels and the lists at the end of the loops of a call, on a process
\* whose call before left the wheels as left
dependencies_to_messages_end(left, col_dependencies, rows, columns) ==
  LET num_rows == Len(rows)
      num_cols == Len(columns)
      start == [wheels   |-> row_round_robin_wheels(left, num_rows),
                messages |-> [i \in 0..(num_rows * num_cols - 1) |-> <<>>]]
  IN  column_loop(start, col_dependencies, 0, num_rows, num_cols)

\* rank -> its list of messages
dependencies_to_messages(col_dependencies, row_boundaries, column_boundaries) ==
  dependencies_to_messages_end(
    [i \in 0..(Len(row_boundaries) - 1) |-> round_robin_wheel],
    col_dependencies, row_boundaries, column_boundaries).messages

row_boundaries_of(p) ==
  LET num_cols == get_num_subgrid_cols(plan_size(p))
      num_rows == plan_size(p) \div num_cols
  IN  [i \in 1..num_rows |-> p[(i - 1) * num_cols].row_stop]

col_boundaries_of(p) ==
  LET num_cols == get_num_subgrid_cols(plan_size(p))
  IN  [i \in 1..num_cols |-> p[i - 1].col_stop]

generate_messages(p) ==
  LET row_boundaries   == row_boundaries_of(p)
      col_boundaries   == col_boundaries_of(p)
      col_dependencies == find_column_dependencies(row_boundaries,
                                                   col_boundaries)
  IN  dependencies_to_messages(col_dependencies, row_boundaries,
                               col_boundaries)

----------------------------------------------------------------------------
(* distribution.cpp: exchange_results, one call on every rank of the plan   *)

to_local_row(g, i) == i - g.row_start
to_local_col(g, i) == i - g.col_start

Ranks == DOMAIN plan

\* dest before the call holds values of an earlier step
Stale == -1
\* what a read outside a vector yields
Garbage == -2

ReadAt(v, i) == IF i \in DOMAIN v THEN v[i] ELSE Garbage

\* the entries first..last of v, as sent or copied
Window(v, first, last) ==
  [k \in 1..(last - first + 1) |-> ReadAt(v, first + k - 1)]

\* v with data stored from index first on, up to index last
StoreAt(v, first, last, data) ==
  [i \in DOMAIN v |->
     IF i >= first /\ i <= last /\ i - first + 1 <= Len(data)
     THEN data[i - first + 1] ELSE v[i]]

CountAt(w, first, last, data) ==
  [i \in DOMAIN w |->
     IF i >= first /\ i <= last /\ i - first + 1 <= Len(data)
     THEN w[i] + 1 ELSE w[i]]

output_start(g, m) == to_local_row(g, m.range.start) * segment_size
output_end(g, m)   == (to_local_row(g, m.range.stop) + 1) * segment_size - 1
\* variant: the input window is placed by the row numbering
input_start_ByRow(g, m) == to_local_row(g, m.range.start) * segment_size

input_start(g, m)  == to_local_col(g, m.range.start) * segment_size
input_end(g, m)    == (to_local_col(g, m.range.stop) + 1) * segment_size - 1

AtMessage(r) == pc[r] = "loop"
Current(r)   == my_messages[r][msg_index[r]]

\* the next iteration of the message loop, or its end
Advance(r) ==
  /\ msg_index' = [msg_index EXCEPT ![r] = @ + 1]
  /\ pc' = [pc EXCEPT ![r] = IF msg_index[r] >= Len(my_messages[r])
                             THEN "done" ELSE "loop"]

\* exchange_results up to the loop: the single-rank copy, or the lists
ExchangeCall(r) ==
  /\ status = "exchange"
  /\ pc[r] = "call"
  /\ IF plan_size(plan) = 1
     THEN /\ dest' = [dest EXCEPT ![r] = source[r]]
          /\ written' = [written EXCEPT ![r] = [i \in DOMAIN @ |-> @[i] + 1]]
          /\ pc' = [pc EXCEPT ![r] = "done"]
          /\ UNCHANGED <<my_messages, msg_index>>
     ELSE /\ my_messages' = [my_messages EXCEPT ![r] = generate_messages(plan)[r]]
          /\ msg_index' = [msg_index EXCEPT ![r] = 1]
          /\ pc' = [pc EXCEPT ![r] = IF generate_messages(plan)[r] = <<>>
                                     THEN "done" ELSE "loop"]
          /\ UNCHANGED <<dest, written>>
  /\ UNCHANGED <<implicitvars, stepvars, planvars, taskvars, sizevars, worldvars, schedvars, failvars, tablevars, segment_size, eager, source, chan, comm, calls>>

\* copy_to_input: a message whose target is the rank itself
CopyToInput(r) ==
  /\ status = "exchange"
  /\ AtMessage(r)
  /\ Current(r).target = r
  /\ LET m    == Current(r)
         g    == plan[r]
         data == Window(source[r], output_start(g, m), output_end(g, m))
     IN  IF m.message_dir = "send"
         THEN /\ dest' = [dest EXCEPT ![r] =
                   StoreAt(@, input_start(g, m), input_end(g, m), data)]
              /\ written' = [written EXCEPT ![r] =
                   CountAt(@, input_start(g, m), input_end(g, m), data)]
         ELSE UNCHANGED <<dest, written>>
  /\ Advance(r)
  /\ UNCHANGED <<implicitvars, stepvars, planvars, taskvars, sizevars, worldvars, schedvars, failvars, tablevars, segment_size, eager, my_messages, source, chan,
                 comm, calls>>

\* the peer has reached the receive that matches a send of r
ReceivePosted(r, t) ==
  /\ t \in Ranks
  /\ AtMessage(t)
  /\ Current(t).message_dir = "receive"
  /\ Current(t).target = r
  /\ chan[<<r, t>>] = <<>>

\* MPI_Send of the current message of r can return
SendReady(r) ==
  /\ Current(r).target \in Ranks
  /\ (eager \/ ReceivePosted(r, Current(r).target))

\* MPI_Recv of the current message of r can return
RecvReady(r) ==
  /\ Current(r).target \in Ranks
  /\ chan[<<Current(r).target, r>>] # <<>>

\* dispatch_message, send branch: MPI_Send of the output window
Send(r) ==
  /\ status = "exchange"
  /\ AtMessage(r)
  /\ Current(r).target # r
  /\ Current(r).message_dir = "send"
  /\ SendReady(r)
  /\ LET m    == Current(r)
         g    == plan[r]
         data == Window(source[r], output_start(g, m), output_end(g, m))
     IN  chan' = [chan EXCEPT ![<<r, m.target>>] = Append(@, data)]
  /\ calls' = [calls EXCEPT !.send = @ + 1]
  /\ Advance(r)
  /\ UNCHANGED <<implicitvars, stepvars, planvars, taskvars, sizevars, worldvars, schedvars, failvars, tablevars, segment_size, eager, my_messages, source, dest,
                 written, comm>>

\* dispatch_message, receive branch: MPI_Recv into the input window
Recv(r) ==
  /\ status = "exchange"
  /\ AtMessage(r)
  /\ Current(r).target # r
  /\ Current(r).message_dir = "receive"
  /\ RecvReady(r)
  /\ LET m    == Current(r)
         g    == plan[r]
         data == Head(chan[<<m.target, r>>])
     IN  /\ dest' = [dest EXCEPT ![r] =
                StoreAt(@, input_start(g, m), input_end(g, m), data)]
         /\ written' = [written EXCEPT ![r] =
                CountAt(@, input_start(g, m), input_end(g, m), data)]
         /\ chan' = [chan EXCEPT ![<<m.target, r>>] = Tail(@)]
  /\ calls' = [calls EXCEPT !.receive = @ + 1]
  /\ Advance(r)
  /\ UNCHANGED <<implicitvars, stepvars, planvars, taskvars, sizevars, worldvars, schedvars, failvars, tablevars, segment_size, eager, my_messages, source, comm>>

----------------------------------------------------------------------------
(* distribution.cpp: reduce_results, one call on every rank of the plan     *)

RECURSIVE SumOver(_, _, _)
\* MPI_SUM of entry i of the vectors v[q], q in S
SumOver(S, v, i) ==
  IF S = {} THEN 0
  ELSE LET q == CHOOSE x \in S : TRUE
       IN  ReadAt(v[q], i) + SumOver(S \ {q}, v, i)

\* variant: the communicator is split by column index
split_color_ByColumn(my_rank, num_cols) == my_rank % num_cols

\* the color of MPI_Comm_split: my_row
split_color(my_rank, num_cols) == my_rank \div num_cols

\* the ranks of the communicator MPI_Comm_split hands to my_rank
row_communicator(my_rank) ==
  LET num_cols == get_num_subgrid_cols(plan_size(plan))
  IN  {q \in Ranks :
         split_color(q, num_cols) = split_color(my_rank, num_cols)}

\* variant: no early return for a plan of one rank
ReduceCall_NoSingle(r) ==
  /\ status = "reduce"
  /\ pc[r] = "call"
  /\ dest' = [dest EXCEPT ![r] = [i \in DOMAIN @ |-> 0]]
  /\ pc' = [pc EXCEPT ![r] = "split"]
  /\ UNCHANGED <<implicitvars, stepvars, planvars, taskvars, sizevars, worldvars, schedvars, failvars, tablevars, segment_size, eager, my_messages, msg_index,
                 source, written, chan, comm, calls>>

\* reduce_results up to MPI_Comm_split: the single-rank copy, or dest zeroed
ReduceCall(r) ==
  /\ status = "reduce"
  /\ pc[r] = "call"
  /\ IF plan_size(plan) = 1
     THEN /\ dest' = [dest EXCEPT ![r] = source[r]]
          /\ pc' = [pc EXCEPT ![r] = "done"]
     ELSE /\ dest' = [dest EXCEPT ![r] = [i \in DOMAIN @ |-> 0]]
          /\ pc' = [pc EXCEPT ![r] = "split"]
  /\ UNCHANGED <<implicitvars, stepvars, planvars, taskvars, sizevars, worldvars, schedvars, failvars, tablevars, segment_size, eager, my_messages, msg_index,
                 source, written, chan, comm, calls>>

\* MPI_Comm_split returns once every rank of the global communicator called it
CommSplit(r) ==
  /\ status = "reduce"
  /\ pc[r] = "split"
  /\ \A q \in Ranks : pc[q] # "call"
  /\ comm' = [comm EXCEPT ![r] = row_communicator(r)]
  /\ pc' = [pc EXCEPT ![r] = "allreduce"]
  /\ calls' = [calls EXCEPT !.collective = @ + 1]
  /\ UNCHANGED <<implicitvars, stepvars, planvars, taskvars, sizevars, worldvars, schedvars, failvars, tablevars, segment_size, eager, my_messages, msg_index,
                 source, dest, written, chan>>

\* MPI_Allreduce returns once every rank of the row communicator called it;
\* MPI_Comm_free follows
Allreduce(r) ==
  /\ status = "reduce"
  /\ pc[r] = "allreduce"
  /\ \A q \in comm[r] : pc[q] \in {"allreduce", "done"}
  /\ dest' = [dest EXCEPT ![r] =
                [i \in DOMAIN @ |-> SumOver(comm[r], source, i)]]
  /\ comm' = [comm EXCEPT ![r] = {}]
  /\ pc' = [pc EXCEPT ![r] = "done"]
  /\ calls' = [calls EXCEPT !.collective = @ + 1]
  /\ UNCHANGED <<implicitvars, stepvars, planvars, taskvars, sizevars, worldvars, schedvars, failvars, tablevars, segment_size, eager, my_messages, msg_index,
                 source, written, chan>>

----------------------------------------------------------------------------
(* Specification of the run: a plan is built, then every rank of the plan    *)
(* calls the same operation, reduce_results or exchange_results.            *)

RECURSIVE Pow2(_)
Pow2(k) == IF k = 0 THEN 1 ELSE 2 * Pow2(k - 1)

\* the partial result of rank r before the reduction
PartialResult(p, r, seg) ==
  [i \in 0..(nrows(p[r]) * seg - 1) |-> Pow2(r) + i]

\* the row-reduced result of rank r: entry k of element e holds e * seg + k,
\* the same on every rank of the row band
ReducedResult(p, r, seg) ==
  [i \in 0..(nrows(p[r]) * seg - 1) |-> p[r].row_start * seg + i]

RunInit ==
  /\ NoSystem
  /\ NoSteps
  /\ num_ranks \in 1..MaxRunRanks
  /\ table_size \in 2..MaxRunTable
  /\ get_plan_accepts(num_ranks, table_size)
  /\ plan = get_plan(num_ranks, table_size)
  /\ status \in {"reduce", "exchange"}
  /\ segment_size \in 1..MaxSegment
  /\ eager \in (IF status = "exchange" THEN BOOLEAN ELSE {FALSE})
  /\ pc = [r \in Ranks |-> "call"]
  /\ my_messages = [r \in Ranks |-> <<>>]
  /\ msg_index = [r \in Ranks |-> 0]
  /\ source = [r \in Ranks |->
                 IF status = "reduce"
                 THEN PartialResult(plan, r, segment_size)
                 ELSE ReducedResult(plan, r, segment_size)]
  /\ dest = [r \in Ranks |->
               [i \in 0..((IF status = "reduce" THEN nrows(plan[r])
                           ELSE ncols(plan[r])) * segment_size - 1) |-> Stale]]
  /\ written = [r \in Ranks |-> [i \in DOMAIN dest[r] |-> 0]]
  /\ chan = [e \in Ranks \X Ranks |-> <<>>]
  /\ comm = [r \in Ranks |-> {}]
  /\ calls = [send |-> 0, receive |-> 0, collective |-> 0]
  /\ NoTasks
  /\ NoSizes
  /\ NoWorld
  /\ NoSchedule
  /\ NoFailures
  /\ NoTable

RunNext ==
  \/ \E r \in Ranks : ReduceCall(r)
  \/ \E r \in Ranks : CommSplit(r)
  \/ \E r \in Ranks : Allreduce(r)
  \/ \E r \in Ranks : ExchangeCall(r)
  \/ \E r \in Ranks : CopyToInput(r)
  \/ \E r \in Ranks : Send(r)
  \/ \E r \in Ranks : Recv(r)

RunSpec == RunInit /\ [][RunNext]_vars

AllDone == \A r \in Ranks : pc[r] = "done"

----------------------------------------------------------------------------
(* Claims about the exchange and the reduction, checked under RunSpec       *)

\* rank r is inside a send or receive that cannot return in this state
Blocked(r) ==
  /\ AtMessage(r)
  /\ Current(r).target # r
  /\ \/ Current(r).message_dir = "send" /\ ~SendReady(r)
     \/ Current(r).message_dir = "receive" /\ ~RecvReady(r)

\* C1. Deadlock freedom of the exchange: when every rank executes its list
\* in list order, with sends that return only when the matching receive is
\* reached (or buffered sends), no reachable state has all unfinished ranks
\* blocked; every step moves a rank forward in its finite list, so every
\* rank finishes.
C1_DeadlockFree ==
  status = "exchange" =>
    /\ AllDone \/ \E r \in Ranks : pc[r] # "done" /\ ~Blocked(r)
    /\ \A r \in Ranks :
         AtMessage(r) => msg_index[r] \in 1..Len(my_messages[r])

C1_Witness ==
  /\ status = "exchange"
  /\ ~eager
  /\ plan_size(plan) = 6
  /\ AllDone
  /\ calls.send > 0

\* the number of entries of list equal to m
Occurrences(list, m) ==
  Cardinality({j \in 1..Len(list) : list[j] = m})

\* C2. Message symmetry: for every send in rank s's list with target t and
\* range R there is exactly one receive in rank t's list with target s and
\* range R, and for every receive exactly one such send.
C2_Symmetry ==
  (status = "exchange" /\ plan_size(plan) > 1
     /\ \A r \in Ranks : pc[r] # "call") =>
    \A s \in Ranks : \A k \in 1..Len(my_messages[s]) :
      LET m == my_messages[s][k]
          other == IF m.message_dir = "send" THEN "receive" ELSE "send"
      IN  /\ m.target \in Ranks
          /\ Occurrences(my_messages[m.target],
                         message(other, s, m.range)) = 1

C2_Witness ==
  /\ status = "exchange"
  /\ plan_size(plan) = 6
  /\ \A r \in Ranks : pc[r] # "call"
  /\ \E k \in 1..Len(my_messages[1]) :
       my_messages[1][k].message_dir = "send" /\ my_messages[1][k].target = 4

\* the ranks of the row band of r
RowBand(r) == {q \in Ranks : plan[q].row_start = plan[r].row_start}

RowsHoldSameSource ==
  \A q1 \in Ranks : \A q2 \in RowBand(q1) : source[q1] = source[q2]

\* a rank of the row band that owns element e
Owner(e) ==
  CHOOSE q \in Ranks : plan[q].row_start <= e /\ e <= plan[q].row_stop

\* C4. Redistribution result: if all ranks of a row band hold the same source,
\* then after every rank completed exchange_results, dest of each rank holds
\* for every element e of its column band and every offset the source value
\* of e held by the row band that owns e, each entry written exactly once.
C4_Redistribution ==
  (status = "exchange" /\ AllDone /\ RowsHoldSameSource) =>
    \A r \in Ranks :
      /\ \A e \in plan[r].col_start..plan[r].col_stop :
           \A k \in 0..(segment_size - 1) :
             LET q == Owner(e)
             IN  dest[r][(e - plan[r].col_start) * segment_size + k] =
                   source[q][(e - plan[q].row_start) * segment_size + k]
      /\ \A i \in DOMAIN written[r] : written[r][i] = 1

C4_Witness ==
  /\ status = "exchange"
  /\ AllDone
  /\ RowsHoldSameSource
  /\ plan_size(plan) = 6
  /\ table_size = 7
  /\ segment_size = 2
  /\ calls.receive > 0

\* C8. Row reduction: for a plan of more than one rank, after all ranks
\* called reduce_results, dest of every rank is the element-wise sum of the
\* sources of the ranks of its row band, identical within the row band, and
\* source is unchanged.
C8_RowReduction ==
  /\ (status = "reduce" /\ plan_size(plan) > 1 /\ AllDone) =>
       \A r \in Ranks :
         /\ dest[r] = [i \in DOMAIN dest[r] |-> SumOver(RowBand(r), source, i)]
         /\ \A q \in RowBand(r) : dest[q] = dest[r]
  /\ status = "reduce" =>
       \A r \in Ranks : source[r] = PartialResult(plan, r, segment_size)

C8_Witness ==
  /\ status = "reduce"
  /\ plan_size(plan) = 6
  /\ AllDone
  /\ segment_size = 2

\* C9. Single-rank degeneration: when plan.size() = 1, reduce_results and
\* exchange_results leave dest equal to source entry for entry, leave source
\* unchanged and perform no send, receive or collective.
C9_SingleRank ==
  plan_size(plan) = 1 =>
    /\ calls = [send |-> 0, receive |-> 0, collective |-> 0]
    /\ source[0] = (IF status = "reduce"
                    THEN PartialResult(plan, 0, segment_size)
                    ELSE ReducedResult(plan, 0, segment_size))
    /\ pc[0] = "done" => dest[0] = source[0]
    /\ pc[0] \in {"call", "done"}

C9_Witness ==
  /\ plan_size(plan) = 1
  /\ status = "reduce"
  /\ pc[0] = "done"
  /\ dest[0] = source[0]
  /\ table_size = 3

----------------------------------------------------------------------------
(* tasking (src/unnamed/part_000): assign_elements_to_tasks                 *)

\* integer division and remainder of C++: the quotient is truncated to zero
CDiv(a, b) == IF a >= 0 THEN a \div b ELSE -((-a) \div b)
CMod(a, b) == a - b * CDiv(a, b)

task(elem_start, elem_end, conn_start, conn_end) ==
  [elem_start |-> elem_start, elem_end |-> elem_end,
   conn_start |-> conn_start, conn_end |-> conn_end]

assign_elements_to_tasks(size, n_tasks) ==
  LET num_elems      == size * size
      elems_per_task == CDiv(num_elems, n_tasks)
  IN  [i \in 1..n_tasks |->
         LET task_start     == (i - 1) * elems_per_task
             task_end       == i * elems_per_task - 1
             task_start_row == CDiv(task_start, size)
             task_start_col == CMod(task_start, size)
             task_end_row   == CDiv(task_end, size)
             task_end_col   == CMod(task_end, size)
         IN  task(task_start_row, task_end_row, task_start_col, task_end_col)]

\* the assertion of assign_elements_to_tasks
assign_asserts(n_tasks) == n_tasks > 0

TaskInit ==
  /\ NoSystem
  /\ NoSteps
  /\ table_size \in 1..MaxTaskTable
  /\ num_tasks \in 0..MaxTasks
  /\ task_list = <<>>
  /\ status = "input"
  /\ num_ranks = 1
  /\ plan = NoPlan
  /\ Idle
  /\ NoSizes
  /\ NoWorld
  /\ NoSchedule
  /\ NoFailures
  /\ NoTable

AssignTasks ==
  /\ status = "input"
  /\ assign_asserts(num_tasks)
  /\ task_list' = assign_elements_to_tasks(table_size, num_tasks)
  /\ status' = "tasks"
  /\ UNCHANGED <<implicitvars, stepvars, table_size, num_ranks, plan, runvars, num_tasks, sizevars, worldvars, schedvars, failvars, tablevars>>

RejectTasks ==
  /\ status = "input"
  /\ ~assign_asserts(num_tasks)
  /\ status' = "rejected"
  /\ UNCHANGED <<implicitvars, stepvars, table_size, num_ranks, plan, runvars, taskvars, sizevars, worldvars, schedvars, failvars, tablevars>>

TaskNext == AssignTasks \/ RejectTasks

TaskSpec == TaskInit /\ [][TaskNext]_vars

----------------------------------------------------------------------------
(* Claims about the tasks, checked under TaskSpec *)

\* first and last linear index row * N + col of the run of task t
RunFirst(t) == t.elem_start * table_size + t.conn_start
RunLast(t)  == t.elem_end * table_size + t.conn_end

\* C10. Chunk coverage: for every table of N elements and every
\* num_tasks >= 1 the tasks are contiguous runs in the order row * N + col
\* whose union is all N * N element pairs, no pair missing and no pair in
\* two tasks.
C10_ChunkCoverage ==
  status = "tasks" =>
    \A index \in 0..(table_size * table_size - 1) :
      Cardinality({i \in DOMAIN task_list :
                     RunFirst(task_list[i]) <= index
                       /\ index <= RunLast(task_list[i])}) = 1

----------------------------------------------------------------------------
(* get_element_size_MB and get_num_tasks (src/unnamed/part_000)             *)
(* The sizes are doubles in the code; the model keeps them exact, in bytes  *)
(* (one byte is 1e-6 MB), so rounding of the floating-point products is     *)
(* outside the model.                                                       *)

MaxCountTable == 3   \* table sizes of the get_num_tasks specification
MaxCountRanks == 3   \* rank counts handed to get_num_tasks
MaxRankSize == 3     \* memory ceilings handed to get_num_tasks, in MB
MaxDegree == 6       \* degrees of the PDE
MaxDims == 6         \* dimensions of the PDE
MaxTerms == 2        \* terms of the PDE

\* megabytes = bytes * 1e-6
BytesPerMB == 1000000

RECURSIVE Pow(_, _)
Pow(b, e) == IF e <= 0 THEN 1 ELSE b * Pow(b, e - 1)

\* std::ceil of the quotient a / b of two non-negative numbers
Ceil(a, b) == (a + b - 1) \div b

elem_size(p) == Pow(p.degree, p.num_dims)

num_workspaces(p) == Min(p.num_dims - 1, 2)

\* the element counts handed to get_MB: reduction space, intermediate
\* space, in and out vectors
get_MB_elems(p) ==
  <<p.num_terms * elem_size(p),
    num_workspaces(p) * p.num_terms * elem_size(p),
    elem_size(p)>>

\* assert(num_elems > 0) of every get_MB call
get_MB_asserts(p) == \A i \in 1..3 : get_MB_elems(p)[i] > 0

\* get_MB in bytes: bytes = num_elems * sizeof(P)
get_MB(num_elems, size) == num_elems * size

\* the workspace of one element pair, in bytes
get_element_size_MB(p, size) ==
  get_MB(get_MB_elems(p)[1], size) + get_MB(get_MB_elems(p)[2], size)
    + get_MB(get_MB_elems(p)[3], size)

\* the total problem size, in bytes
problem_size_MB(size, p, psize) ==
  get_element_size_MB(p, psize) * (size * size)

\* static_cast<int>(std::ceil(problem_size_MB)) / rank_size_MB
problem_size_per_rank(size, p, psize, rank_size) ==
  CDiv(Ceil(problem_size_MB(size, p, psize), BytesPerMB), rank_size)

get_num_tasks(size, p, psize, ranks, rank_size) ==
  LET per_rank == problem_size_per_rank(size, p, psize, rank_size)
  IN  IF CMod(per_rank, ranks) = 0
      THEN per_rank
      ELSE Ceil(per_rank, ranks) * ranks

\* the assertions of get_num_tasks and of the get_MB calls it makes
get_num_tasks_asserts(p, ranks, rank_size) ==
  /\ ranks > 0
  /\ rank_size > 0
  /\ get_MB_asserts(p)

CountInit ==
  /\ NoSystem
  /\ NoSteps
  /\ table_size \in 1..MaxCountTable
  /\ pde \in [degree : 1..MaxDegree, num_dims : 1..MaxDims,
              num_terms : 1..MaxTerms]
  /\ sizeof_P \in {4, 8}
  /\ num_ranks \in 0..MaxCountRanks
  /\ rank_size_MB \in 0..MaxRankSize
  /\ status = "count"
  /\ plan = NoPlan
  /\ Idle
  /\ NoTasks
  /\ NoWorld
  /\ NoSchedule
  /\ NoFailures
  /\ NoTable

GetNumTasks ==
  /\ status = "count"
  /\ get_num_tasks_asserts(pde, num_ranks, rank_size_MB)
  /\ num_tasks' = get_num_tasks(table_size, pde, sizeof_P, num_ranks,
                                rank_size_MB)
  /\ status' = "input"
  /\ UNCHANGED <<implicitvars, stepvars, table_size, num_ranks, plan, runvars, task_list, sizevars, worldvars, schedvars, failvars, tablevars>>

RejectNumTasks ==
  /\ status = "count"
  /\ ~get_num_tasks_asserts(pde, num_ranks, rank_size_MB)
  /\ status' = "rejected"
  /\ UNCHANGED <<implicitvars, stepvars, table_size, num_ranks, plan, runvars, taskvars, sizevars, worldvars, schedvars, failvars, tablevars>>

CountNext == GetNumTasks \/ RejectNumTasks \/ AssignTasks \/ RejectTasks

CountSpec == CountInit /\ [][CountNext]_vars

----------------------------------------------------------------------------
(* Claims about the task count, checked under CountSpec *)

\* the element pairs of task t
NumPairs(t) == RunLast(t) - RunFirst(t) + 1

\* C11. Memory ceiling: when the problem is split into get_num_tasks tasks
\* by assign_elements_to_tasks, the workspace of every task (its number of
\* element pairs times the size of one pair) is at most rank_size_MB.
C11_MemoryCeiling ==
  status = "tasks" =>
    \A i \in DOMAIN task_list :
      NumPairs(task_list[i]) * get_element_size_MB(pde, sizeof_P)
        <= rank_size_MB * BytesPerMB

\* C12. Task count: for num_ranks >= 1 and rank_size_MB >= 1 get_num_tasks
\* returns a multiple of num_ranks that is at least 1 and at least the
\* problem size divided by rank_size_MB rounded up.
C12_TaskCount ==
  status = "input" =>
    /\ num_tasks % num_ranks = 0
    /\ num_tasks >= 1
    /\ num_tasks >= Ceil(problem_size_MB(table_size, pde, sizeof_P),
                         BytesPerMB * rank_size_MB)

\* C13. A memory ceiling too small for one element pair ends in a fatal
\* error: get_num_tasks returns only if one pair fits, and no task of a
\* returned task list has an empty or negative range.
C13_CeilingTooSmall ==
  /\ status \in {"input", "tasks"} =>
       get_element_size_MB(pde, sizeof_P) <= rank_size_MB * BytesPerMB
  /\ status = "tasks" =>
       \A i \in DOMAIN task_list : NumPairs(task_list[i]) >= 1

----------------------------------------------------------------------------
(* distribution.cpp: gather_results, one call on every rank of the plan     *)

\* length of the vector of the non-root first-row rank i; entry 0 stays 0
rank_lengths(p, seg) ==
  [i \in 0..(get_num_subgrid_cols(plan_size(p)) - 1) |->
     IF i = 0 THEN 0 ELSE ncols(p[i]) * seg]

RECURSIVE running_total(_, _)
\* the sum of lengths(0..i-1)
running_total(lengths, i) ==
  IF i = 0 THEN 0 ELSE running_total(lengths, i - 1) + lengths[i - 1]

\* variant: the displacement counts the ranks up to and including i
rank_displacements_Inclusive(p, seg) ==
  [i \in DOMAIN rank_lengths(p, seg) |->
     running_total(rank_lengths(p, seg), i) + rank_lengths(p, seg)[i]]

rank_displacements(p, seg) ==
  [i \in DOMAIN rank_lengths(p, seg) |->
     running_total(rank_lengths(p, seg), i)]

\* std::accumulate(rank_lengths, my_results.size()) on rank 0, else 0
vect_size(p, seg, my_rank, my_size) ==
  IF my_rank # 0 THEN 0
  ELSE my_size + running_total(rank_lengths(p, seg),
                               get_num_subgrid_cols(plan_size(p)))

VectorSize(v) == Cardinality(DOMAIN v)

\* own_results(): a copy of my_results
own_results(r) == source[r]

\* my_rank < num_subgrid_cols: the rank is in the first row
first_row(r) == r < get_num_subgrid_cols(plan_size(plan))

\* the solution vector of rank r before the gather
SolutionVector(p, r, seg) ==
  [i \in 0..(ncols(p[r]) * seg - 1) |-> r * table_size * seg + i]

MaxGatherRanks == 9    \* rank counts of the gather specification
MaxGatherTable == 10   \* table sizes of the gather specification

GatherInit ==
  /\ NoSystem
  /\ NoSteps
  /\ num_ranks \in 1..MaxGatherRanks
  /\ table_size \in (MaxGatherTable - 1)..MaxGatherTable
  /\ get_plan_accepts(num_ranks, table_size)
  /\ plan = get_plan(num_ranks, table_size)
  /\ status = "gather"
  /\ segment_size \in 1..MaxSegment
  /\ eager \in BOOLEAN
  /\ pc = [r \in Ranks |-> "call"]
  /\ my_messages = [r \in Ranks |-> <<>>]
  /\ msg_index = [r \in Ranks |-> 0]
  /\ source = [r \in Ranks |-> SolutionVector(plan, r, segment_size)]
  /\ dest = [r \in Ranks |-> <<>>]
  /\ written = [r \in Ranks |-> <<>>]
  /\ chan = [e \in Ranks \X Ranks |-> <<>>]
  /\ comm = [r \in Ranks |-> {}]
  /\ calls = [send |-> 0, receive |-> 0, collective |-> 0]
  /\ NoTasks
  /\ NoSizes
  /\ NoWorld
  /\ NoSchedule
  /\ NoFailures
  /\ NoTable

\* gather_results up to MPI_Comm_split: the single-rank copy, or the lengths
GatherCall(r) ==
  /\ status = "gather"
  /\ pc[r] = "call"
  /\ IF plan_size(plan) = 1
     THEN /\ dest' = [dest EXCEPT ![r] = own_results(r)]
          /\ pc' = [pc EXCEPT ![r] = "done"]
     ELSE /\ pc' = [pc EXCEPT ![r] = "split"]
          /\ UNCHANGED dest
  /\ UNCHANGED <<implicitvars, stepvars, planvars, taskvars, sizevars, worldvars, schedvars, failvars, tablevars, segment_size, eager,
                 my_messages, msg_index, source, written, chan, comm, calls>>

\* MPI_Comm_split returns once every rank of the global communicator called
\* it; a rank outside the first row returns its own results, rank 0 copies
\* its results to the front of the result vector
GatherSplit(r) ==
  /\ status = "gather"
  /\ pc[r] = "split"
  /\ \A q \in Ranks : pc[q] # "call"
  /\ calls' = [calls EXCEPT !.collective = @ + 1]
  /\ IF ~first_row(r)
     THEN /\ dest' = [dest EXCEPT ![r] = own_results(r)]
          /\ pc' = [pc EXCEPT ![r] = "done"]
          /\ UNCHANGED <<msg_index, comm>>
     ELSE /\ comm' = [comm EXCEPT ![r] = {q \in Ranks : first_row(q)}]
          /\ msg_index' = [msg_index EXCEPT ![r] = 1]
          /\ pc' = [pc EXCEPT ![r] = "loop"]
          /\ IF r = 0
             THEN dest' = [dest EXCEPT ![r] =
                    StoreAt([i \in 0..(vect_size(plan, segment_size, r,
                                         VectorSize(source[r])) - 1) |-> Stale],
                            0, VectorSize(source[r]) - 1,
                            Window(source[r], 0, VectorSize(source[r]) - 1))]
             ELSE UNCHANGED dest
  /\ UNCHANGED <<implicitvars, stepvars, planvars, taskvars, sizevars, worldvars, schedvars, failvars, tablevars, segment_size, eager,
                 my_messages, source, written, chan>>

\* MPI_Send of a first-row rank can return
GatherSendReady(r) ==
  eager \/ (pc[0] = "loop" /\ msg_index[0] = r /\ chan[<<r, 0>>] = <<>>)

\* MPI_Send of my_results to rank 0, then return own_results()
GatherSend(r) ==
  /\ status = "gather"
  /\ pc[r] = "loop"
  /\ r # 0
  /\ GatherSendReady(r)
  /\ chan' = [chan EXCEPT ![<<r, 0>>] =
                Append(@, Window(source[r], 0, VectorSize(source[r]) - 1))]
  /\ dest' = [dest EXCEPT ![r] = own_results(r)]
  /\ pc' = [pc EXCEPT ![r] = "done"]
  /\ calls' = [calls EXCEPT !.send = @ + 1]
  /\ UNCHANGED <<implicitvars, stepvars, planvars, taskvars, sizevars, worldvars, schedvars, failvars, tablevars, segment_size, eager,
                 my_messages, msg_index, source, written, comm>>

\* rank 0: MPI_Recv from rank i of the loop into the result vector, and the
\* return of the results after the last one
GatherRecv(r) ==
  /\ status = "gather"
  /\ pc[r] = "loop"
  /\ r = 0
  /\ LET i        == msg_index[r]
         num_cols == get_num_subgrid_cols(plan_size(plan))
         first    == VectorSize(source[r])
                       + rank_displacements(plan, segment_size)[i]
         count    == rank_lengths(plan, segment_size)[i]
     IN  IF i < num_cols
         THEN /\ chan[<<i, r>>] # <<>>
              /\ dest' = [dest EXCEPT ![r] =
                     StoreAt(@, first, first + count - 1, Head(chan[<<i, r>>]))]
              /\ chan' = [chan EXCEPT ![<<i, r>>] = Tail(@)]
              /\ msg_index' = [msg_index EXCEPT ![r] = i + 1]
              /\ calls' = [calls EXCEPT !.receive = @ + 1]
              /\ UNCHANGED pc
         ELSE /\ pc' = [pc EXCEPT ![r] = "done"]
              /\ UNCHANGED <<dest, chan, msg_index, calls>>
  /\ UNCHANGED <<implicitvars, stepvars, planvars, taskvars, sizevars, worldvars, schedvars, failvars, tablevars, segment_size, eager,
                 my_messages, source, written, comm>>

GatherNext ==
  \/ \E r \in Ranks : GatherCall(r)
  \/ \E r \in Ranks : GatherSplit(r)
  \/ \E r \in Ranks : GatherSend(r)
  \/ \E r \in Ranks : GatherRecv(r)

GatherSpec == GatherInit /\ [][GatherNext]_vars

----------------------------------------------------------------------------
(* Claims about the gather, checked under GatherSpec *)

RECURSIVE Concatenation(_, _)
\* the vectors v[0], .., v[last] one after the other, indexed from 0
Concatenation(v, last) ==
  IF last < 0 THEN <<>>
  ELSE LET front == Concatenation(v, last - 1)
           n     == VectorSize(front)
       IN  [i \in 0..(n + VectorSize(v[last]) - 1) |->
              IF i < n THEN front[i] ELSE v[last][i - n]]

\* C14. Gather: for a plan of more than one rank, after all ranks have
\* called gather_results the vector returned on rank 0 is the concatenation,
\* in column-band order, of the vectors of the first-row ranks 0..cols-1,
\* N * segment_size entries; every other rank returns a copy of its own.
C14_Gather ==
  (status = "gather" /\ plan_size(plan) > 1 /\ AllDone) =>
    /\ dest[0] = Concatenation(source,
                               get_num_subgrid_cols(plan_size(plan)) - 1)
    /\ VectorSize(dest[0]) = table_size * segment_size
    /\ \A r \in Ranks \ {0} : dest[r] = source[r]

C14_Witness ==
  /\ status = "gather"
  /\ AllDone
  /\ get_num_subgrid_cols(plan_size(plan)) > 2
  /\ plan_size(plan) > get_num_subgrid_cols(plan_size(plan))
  /\ \E r \in Ranks : first_row(r) /\ ncols(plan[r]) # ncols(plan[0])
  /\ calls.receive = get_num_subgrid_cols(plan_size(plan)) - 1

----------------------------------------------------------------------------
(* main.cpp and distribution.cpp: initialize_distribution on every process  *)
(* of MPI_COMM_WORLD, then the calls main makes on it.  A collective call   *)
(* returns once every member of its communicator has called it.             *)

MaxWorld == 6   \* processes of MPI_COMM_WORLD

World == 0..(num_ranks - 1)

\* num_participating of initialize_distribution
num_participating == num_effective_ranks(num_ranks)

\* participating = my_rank < num_participating
participating(r) == r < num_participating

\* the members of effective_communicator (color 1 of the split)
effective_communicator == {q \in World : participating(q)}

IdleRanks == World \ effective_communicator

\* the calls of main on rank r, in program order: initialize_distribution
\* (MPI_Init, MPI_Comm_split, set_global_comm, get_local_rank), then either
\* finalize_distribution or the plan, one time step, the gather and
\* finalize_distribution
Program(r) ==
  IF participating(r)
  THEN <<"MPI_Init", "MPI_Comm_split", "set_global_comm", "get_local_rank",
         "get_plan", "reduce_results", "exchange_results", "gather_results",
         "MPI_Finalize", "exit">>
  ELSE <<"MPI_Init", "MPI_Comm_split", "MPI_Finalize", "exit">>

\* the call rank r is about to make or is inside of
At(r) == Program(r)[world_pc[r]]

\* rank q has made the call (it is inside of it or past it)
Called(q, call) ==
  \E k \in 1..world_pc[q] : Program(q)[k] = call

\* the ranks whose call the current call of r waits for
WaitsFor(r) ==
  CASE At(r) = "MPI_Comm_split"   -> World
    [] At(r) = "set_global_comm"  -> effective_communicator
    [] At(r) = "get_local_rank"   -> global_comm[r]
    [] At(r) = "reduce_results"   ->
         IF plan_size(world_plan[r]) = 1 THEN {} ELSE global_comm[r]
    [] At(r) = "exchange_results" -> DOMAIN world_plan[r]
    [] At(r) = "gather_results"   ->
         IF plan_size(world_plan[r]) = 1 THEN {} ELSE global_comm[r]
    [] At(r) = "MPI_Finalize"     -> IF finalize_syncs THEN World ELSE {}
    [] OTHER -> {}

\* the current call of r can return
CanReturn(r) == \A q \in WaitsFor(r) : Called(q, At(r))

Proceed(r) == world_pc' = [world_pc EXCEPT ![r] = @ + 1]

WorldInit ==
  /\ NoSystem
  /\ NoSteps
  /\ num_ranks \in 1..MaxWorld
  /\ table_size = num_ranks + 1
  /\ status = "main"
  /\ plan = get_plan(num_participating, table_size)
  /\ world_pc = [r \in World |-> 1]
  /\ global_comm = [r \in World |-> World]
  /\ world_plan = [r \in World |-> NoPlan]
  /\ world_ops = [r \in World |-> {}]
  /\ finalize_syncs \in BOOLEAN
  /\ Idle
  /\ NoTasks
  /\ NoSizes
  /\ NoSchedule
  /\ NoFailures
  /\ NoTable

MpiInit(r) ==
  /\ status = "main"
  /\ At(r) = "MPI_Init"
  /\ Proceed(r)
  /\ UNCHANGED <<implicitvars, stepvars, planvars, runvars, taskvars, sizevars, schedvars, failvars, tablevars, tablevars, global_comm,
                 world_plan, world_ops, finalize_syncs>>

\* MPI_Comm_split(MPI_COMM_WORLD, participating ? 1 : MPI_UNDEFINED, ..)
WorldSplit(r) ==
  /\ status = "main"
  /\ At(r) = "MPI_Comm_split"
  /\ CanReturn(r)
  /\ Proceed(r)
  /\ UNCHANGED <<implicitvars, stepvars, planvars, runvars, taskvars, sizevars, schedvars, failvars, tablevars, tablevars, global_comm,
                 world_plan, world_ops, finalize_syncs>>

\* variant: the global communicator is left at MPI_COMM_WORLD
set_global_comm_Skipped(r, members) == global_comm[r]

\* distro_handle.set_global_comm(effective_communicator)
set_global_comm(r, members) == members

SetGlobalComm(r) ==
  /\ status = "main"
  /\ At(r) = "set_global_comm"
  /\ CanReturn(r)
  /\ global_comm' = [global_comm EXCEPT
                       ![r] = set_global_comm(r, effective_communicator)]
  /\ Proceed(r)
  /\ UNCHANGED <<implicitvars, stepvars, planvars, runvars, taskvars, sizevars, schedvars, failvars, tablevars, tablevars, world_plan,
                 world_ops, finalize_syncs>>

\* get_local_rank: MPI_Comm_split_type over the global communicator
GetLocalRank(r) ==
  /\ status = "main"
  /\ At(r) = "get_local_rank"
  /\ CanReturn(r)
  /\ Proceed(r)
  /\ UNCHANGED <<implicitvars, stepvars, planvars, runvars, taskvars, sizevars, schedvars, failvars, tablevars, tablevars, global_comm,
                 world_plan, world_ops, finalize_syncs>>

\* main: get_plan(num_ranks, table) with the count initialize_distribution
\* returned; plan holds what this call returns, the same on every rank
MainGetPlan(r) ==
  /\ status = "main"
  /\ At(r) = "get_plan"
  /\ world_plan' = [world_plan EXCEPT ![r] = plan]
  /\ Proceed(r)
  /\ UNCHANGED <<implicitvars, stepvars, planvars, runvars, taskvars, sizevars, schedvars, failvars, tablevars, tablevars, global_comm,
                 world_ops, finalize_syncs>>

\* reduce_results, exchange_results or gather_results as one step
Operation(r) ==
  /\ status = "main"
  /\ At(r) \in {"reduce_results", "exchange_results", "gather_results"}
  /\ CanReturn(r)
  /\ world_ops' = [world_ops EXCEPT ![r] = @ \cup {At(r)}]
  /\ Proceed(r)
  /\ UNCHANGED <<implicitvars, stepvars, planvars, runvars, taskvars, sizevars, schedvars, failvars, tablevars, tablevars, global_comm,
                 world_plan, finalize_syncs>>

\* finalize_distribution, then return 0
Finalize(r) ==
  /\ status = "main"
  /\ At(r) = "MPI_Finalize"
  /\ CanReturn(r)
  /\ Proceed(r)
  /\ UNCHANGED <<implicitvars, stepvars, planvars, runvars, taskvars, sizevars, schedvars, failvars, tablevars, tablevars, global_comm,
                 world_plan, world_ops, finalize_syncs>>

WorldNext ==
  \/ \E r \in World : MpiInit(r)
  \/ \E r \in World : WorldSplit(r)
  \/ \E r \in World : SetGlobalComm(r)
  \/ \E r \in World : GetLocalRank(r)
  \/ \E r \in World : MainGetPlan(r)
  \/ \E r \in World : Operation(r)
  \/ \E r \in World : Finalize(r)

WorldSpec == WorldInit /\ [][WorldNext]_vars

\* every process keeps running
FairWorldSpec == WorldSpec /\ WF_vars(WorldNext)

----------------------------------------------------------------------------
(* Claims about the processes, checked under FairWorldSpec *)

\* the calls after initialize_distribution that communicate
LaterCalls ==
  {"reduce_results", "exchange_results", "gather_results"}

\* never a plan or an operation on an idle rank, and no participating rank
\* inside a later call is waiting for an idle rank
IdleRanksApart ==
  /\ \A r \in IdleRanks :
       /\ world_plan[r] = NoPlan
       /\ world_ops[r] = {}
       /\ global_comm[r] = World
  /\ \A r \in effective_communicator :
       At(r) \in LaterCalls \cup {"get_local_rank"} =>
         WaitsFor(r) \cap IdleRanks = {}

IdleRanksExited == \A r \in IdleRanks : At(r) = "exit"

\* C15. Idle ranks: a process whose world rank is >= the effective rank
\* count builds no plan and takes part in no reduce, exchange or gather;
\* it finalizes and exits, and no participating rank ever waits for it in
\* the calls after initialize_distribution.
C15_IdleRanks ==
  /\ [](status = "main" => IdleRanksApart)
  /\ (status = "main") ~> IdleRanksExited

C15_Witness ==
  /\ status = "main"
  /\ IdleRanks # {}
  /\ IdleRanksExited
  /\ ~finalize_syncs
  /\ \E r \in effective_communicator :
       At(r) = "exchange_results" /\ "reduce_results" \in world_ops[r]

----------------------------------------------------------------------------
(* distribution.cpp: generate_messages called by every rank of a plan at    *)
(* every exchange_results                                                   *)

MaxExchanges == 2   \* exchanges of a run

\* generate_messages on a process whose call before left the wheels as left:
\* the lists it returns and the wheels at its end
generate_messages_end(p, left) ==
  LET row_boundaries   == row_boundaries_of(p)
      col_boundaries   == col_boundaries_of(p)
      col_dependencies == find_column_dependencies(row_boundaries,
                                                   col_boundaries)
  IN  dependencies_to_messages_end(left, col_dependencies, row_boundaries,
                                   col_boundaries)

ScheduleInit ==
  /\ NoSystem
  /\ NoSteps
  /\ num_ranks \in 1..MaxRunRanks
  /\ table_size \in 2..MaxRunTable
  /\ get_plan_accepts(num_ranks, table_size)
  /\ plan = get_plan(num_ranks, table_size)
  /\ status = "schedule"
  /\ wheel_memory = [r \in Ranks |->
                       [i \in 0..(Len(row_boundaries_of(plan)) - 1) |->
                          round_robin_wheel]]
  /\ schedules = {}
  /\ sched_calls = [r \in Ranks |-> 0]
  /\ Idle
  /\ NoTasks
  /\ NoSizes
  /\ NoWorld
  /\ NoFailures
  /\ NoTable

\* exchange_results on rank r, up to the return of generate_messages(plan)
GenerateMessages(r) ==
  /\ status = "schedule"
  /\ sched_calls[r] < MaxExchanges
  /\ LET end == generate_messages_end(plan, wheel_memory[r])
     IN  /\ schedules' = schedules \cup {end.messages}
         /\ wheel_memory' = [wheel_memory EXCEPT ![r] = end.wheels]
  /\ sched_calls' = [sched_calls EXCEPT ![r] = @ + 1]
  /\ UNCHANGED <<implicitvars, stepvars, planvars, runvars, taskvars, sizevars, worldvars, failvars,
                 tablevars>>

ScheduleNext == \E r \in Ranks : GenerateMessages(r)

ScheduleSpec == ScheduleInit /\ [][ScheduleNext]_vars

\* C16. Schedule determinism: generate_messages is a function of the plan
\* only: all calls, on the same rank at different exchanges or on different
\* ranks, return the same lists in the same order, those of a call that
\* starts with new wheels.
C16_Deterministic ==
  status = "schedule" =>
    \A lists \in schedules : lists = generate_messages(plan)

C16_Witness ==
  /\ status = "schedule"
  /\ plan_size(plan) > get_num_subgrid_cols(plan_size(plan))
  /\ get_num_subgrid_cols(plan_size(plan)) > 1
  /\ \A r \in Ranks : sched_calls[r] = MaxExchanges
  /\ \E r \in Ranks : \E i \in DOMAIN wheel_memory[r] :
       wheel_memory[r][i] # round_robin_wheel

----------------------------------------------------------------------------
(* distribution.cpp: the return values of the transport calls.  Every rank  *)
(* makes the calls of one time step and of the gathers; each call returns   *)
(* success or non-success.  Assertions are enabled.                         *)

MaxFailRanks == 2   \* ranks of the global communicator

\* the transport calls of a rank in program order; asserted: the return
\* value is stored and followed by assert(success == 0)
TransportCalls ==
  <<[function |-> "reduce_results", call |-> "MPI_Comm_split",
     asserted |-> TRUE],
    [function |-> "reduce_results", call |-> "MPI_Allreduce",
     asserted |-> TRUE],
    [function |-> "reduce_results", call |-> "MPI_Comm_free",
     asserted |-> TRUE],
    [function |-> "dispatch_message", call |-> "MPI_Send",
     asserted |-> TRUE],
    [function |-> "dispatch_message", call |-> "MPI_Recv",
     asserted |-> TRUE],
    [function |-> "gather_errors", call |-> "MPI_Comm_split_type",
     asserted |-> TRUE],
    [function |-> "gather_errors", call |-> "MPI_Gather",
     asserted |-> FALSE],
    [function |-> "gather_errors", call |-> "MPI_Comm_free",
     asserted |-> TRUE],
    [function |-> "gather_results", call |-> "MPI_Comm_split",
     asserted |-> TRUE],
    [function |-> "gather_results", call |-> "MPI_Send",
     asserted |-> TRUE],
    [function |-> "gather_results", call |-> "MPI_Recv",
     asserted |-> TRUE]>>

FailInit ==
  /\ NoSystem
  /\ NoSteps
  /\ num_ranks \in 1..MaxFailRanks
  /\ table_size = num_ranks + 1
  /\ status = "transport"
  /\ plan = NoPlan
  /\ call_index = [r \in 0..(num_ranks - 1) |-> 1]
  /\ nonsuccess = {}
  /\ running = 0..(num_ranks - 1)
  /\ Idle
  /\ NoTasks
  /\ NoSizes
  /\ NoWorld
  /\ NoSchedule
  /\ NoTable

\* the call returns 0: the rank goes on to its next call
ReturnSuccess(r) ==
  /\ status = "transport"
  /\ r \in running
  /\ call_index[r] <= Len(TransportCalls)
  /\ call_index' = [call_index EXCEPT ![r] = @ + 1]
  /\ UNCHANGED <<implicitvars, stepvars, planvars, runvars, taskvars, sizevars, worldvars, schedvars,
                 tablevars, nonsuccess, running>>

\* the call returns non-success: a failed assert raises SIGABRT, whose
\* handler terminate_all_ranks calls MPI_Abort on the global communicator;
\* a return value that is not looked at lets the rank go on
ReturnFailure(r) ==
  /\ status = "transport"
  /\ r \in running
  /\ call_index[r] <= Len(TransportCalls)
  /\ nonsuccess' = nonsuccess \cup {<<r, call_index[r]>>}
  /\ IF TransportCalls[call_index[r]].asserted
     THEN /\ running' = {}
          /\ UNCHANGED call_index
     ELSE /\ call_index' = [call_index EXCEPT ![r] = @ + 1]
          /\ UNCHANGED running
  /\ UNCHANGED <<implicitvars, stepvars, planvars, runvars, taskvars, sizevars, worldvars, schedvars,
                 tablevars>>

FailNext ==
  \/ \E r \in 0..(num_ranks - 1) : ReturnSuccess(r)
  \/ \E r \in 0..(num_ranks - 1) : ReturnFailure(r)

FailSpec == FailInit /\ [][FailNext]_vars

\* C17. Any communication failure is fatal for the whole job: a rank whose
\* transport call returned non-success does not go on to its next call, and
\* all ranks are terminated.
C17_FailureIsFatal ==
  status = "transport" =>
    \A f \in nonsuccess :
      /\ call_index[f[1]] = f[2]
      /\ running = {}

----------------------------------------------------------------------------
(* The element table: the ordered list of the element coordinates, D levels *)
(* then D cells, and the two mappings get_coords and get_index              *)

MaxTableDims == 2    \* dimensions of the element table
MaxTableLevel == 2   \* level bounds of the element table
MaxElements == 60    \* sizes of the tables that are looked at

RECURSIVE FlattenTo(_, _)
\* the first n sequences of ss one after the other
FlattenTo(ss, n) == IF n = 0 THEN <<>> ELSE FlattenTo(ss, n - 1) \o ss[n]

\* the sequences of ss one after the other
Flatten(ss) == FlattenTo(ss, Len(ss))

RECURSIVE SumOfLevels(_)
SumOfLevels(levels) ==
  IF levels = <<>> THEN 0 ELSE Head(levels) + SumOfLevels(Tail(levels))

RECURSIVE level_tuples(_, _, _)
\* the level values of d dimensions, in order: sparse grid, every tuple
\* whose sum is at most bound; full grid, every tuple of levels up to bound
level_tuples(d, bound, full_grid) ==
  IF d = 0 THEN << <<>> >>
  ELSE Flatten([l \in 1..(bound + 1) |->
         LET rest == level_tuples(d - 1,
                                  IF full_grid THEN bound ELSE bound - (l - 1),
                                  full_grid)
         IN  [k \in 1..Len(rest) |-> <<l - 1>> \o rest[k]]])

RECURSIVE cell_tuples(_)
\* the cell indices of the levels, in order: cell of level l in [0, 2^l)
cell_tuples(levels) ==
  IF levels = <<>> THEN << <<>> >>
  ELSE Flatten([c \in 1..Pow2(Head(levels)) |->
         LET rest == cell_tuples(Tail(levels))
         IN  [k \in 1..Len(rest) |-> <<c - 1>> \o rest[k]]])

\* the list of coordinates of the table
element_table(opts) ==
  LET levels == level_tuples(opts.num_dims, opts.level, opts.full_grid)
  IN  Flatten([t \in 1..Len(levels) |->
        LET cells == cell_tuples(levels[t])
        IN  [k \in 1..Len(cells) |-> levels[t] \o cells[k]]])

\* variant: the inverse map is keyed by the levels of the coordinate
coordinate_key_Levels(c) == SubSeq(c, 1, Len(c) \div 2)

\* the key of the inverse map: the coordinate vector
coordinate_key(c) == c

\* the inverse map after the first n coordinates of the table were entered:
\* a key keeps the index it was entered with first
inverse_map(table, n) ==
  [k \in {coordinate_key(table[i]) : i \in 1..n} |->
     (CHOOSE i \in 1..n :
        /\ coordinate_key(table[i]) = k
        /\ \A j \in 1..(i - 1) : coordinate_key(table[j]) # k) - 1]

\* table.size()
table_size_of(table) == Len(table)

\* the assertion of get_coords: the index is in range
get_coords_asserts(table, i) == i >= 0 /\ i < table_size_of(table)

get_coords(table, i) == table[i + 1]

get_index(map, c) == map[coordinate_key(c)]

\* the valid coordinates: cell of level l in [0, 2^l); sparse grid, sum of
\* the levels at most the bound; full grid, every level at most the bound
ActiveSet(opts) ==
  LET D == opts.num_dims
  IN  {c \in [1..(2 * D) -> 0..(Pow2(opts.level) - 1)] :
         /\ \A d \in 1..D : c[d] <= opts.level /\ c[D + d] < Pow2(c[d])
         /\ opts.full_grid \/ SumOfLevels(SubSeq(c, 1, D)) <= opts.level}

ElementInit ==
  /\ NoSystem
  /\ NoSteps
  /\ options \in [num_dims : 1..MaxTableDims, level : 0..MaxTableLevel,
                  full_grid : BOOLEAN]
  /\ Len(element_table(options)) <= MaxElements
  /\ elements = <<>>
  /\ lookup = <<>>
  /\ query = <<>>
  /\ answer = <<>>
  /\ status = "options"
  /\ table_size = 1
  /\ num_ranks = 1
  /\ plan = NoPlan
  /\ Idle
  /\ NoTasks
  /\ NoSizes
  /\ NoWorld
  /\ NoSchedule
  /\ NoFailures

\* element_table(options, num_dims): the list and the inverse map
MakeTable ==
  /\ status = "options"
  /\ elements' = element_table(options)
  /\ lookup' = inverse_map(element_table(options),
                           Len(element_table(options)))
  /\ status' = "table"
  /\ UNCHANGED <<implicitvars, stepvars, table_size, num_ranks, plan, runvars, taskvars, sizevars,
                 worldvars, schedvars, failvars, options, query, answer>>

\* get_coords(i)
GetCoords ==
  /\ status = "table"
  /\ \E i \in (-1)..table_size_of(elements) :
       /\ get_coords_asserts(elements, i)
       /\ query' = i
       /\ answer' = get_coords(elements, i)
  /\ status' = "coords"
  /\ UNCHANGED <<implicitvars, stepvars, table_size, num_ranks, plan, runvars, taskvars, sizevars,
                 worldvars, schedvars, failvars, options, elements, lookup>>

\* get_coords of an index out of range
RejectCoords ==
  /\ status = "table"
  /\ \E i \in (-1)..table_size_of(elements) :
       /\ ~get_coords_asserts(elements, i)
       /\ query' = i
  /\ status' = "rejected"
  /\ UNCHANGED <<implicitvars, stepvars, table_size, num_ranks, plan, runvars, taskvars, sizevars,
                 worldvars, schedvars, failvars, options, elements, lookup,
                 answer>>

\* get_index(c) of a valid coordinate
GetIndex ==
  /\ status = "table"
  /\ \E c \in ActiveSet(options) :
       /\ coordinate_key(c) \in DOMAIN lookup
       /\ query' = c
       /\ answer' = get_index(lookup, c)
  /\ status' = "index"
  /\ UNCHANGED <<implicitvars, stepvars, table_size, num_ranks, plan, runvars, taskvars, sizevars,
                 worldvars, schedvars, failvars, options, elements, lookup>>

\* get_index(get_coords(i))
IndexOfCoords ==
  /\ status = "coords"
  /\ answer' = get_index(lookup, answer)
  /\ status' = "index of coords"
  /\ UNCHANGED <<implicitvars, stepvars, table_size, num_ranks, plan, runvars, taskvars, sizevars,
                 worldvars, schedvars, failvars, options, elements, lookup,
                 query>>

\* get_coords(get_index(c))
CoordsOfIndex ==
  /\ status = "index"
  /\ get_coords_asserts(elements, answer)
  /\ answer' = get_coords(elements, answer)
  /\ status' = "coords of index"
  /\ UNCHANGED <<implicitvars, stepvars, table_size, num_ranks, plan, runvars, taskvars, sizevars,
                 worldvars, schedvars, failvars, options, elements, lookup,
                 query>>

ElementNext ==
  \/ MakeTable
  \/ GetCoords
  \/ RejectCoords
  \/ GetIndex
  \/ IndexOfCoords
  \/ CoordsOfIndex

ElementSpec == ElementInit /\ [][ElementNext]_vars

\* C18. Index bijection of the element table: get_coords(get_index(c)) = c
\* for every coordinate c of the active element set,
\* get_index(get_coords(i)) = i for every i in [0, N), and no two indices
\* have the same coordinate.
C18_IndexBijection ==
  /\ status = "table" =>
       \A c \in ActiveSet(options) : coordinate_key(c) \in DOMAIN lookup
  /\ status = "coords of index" => answer = query
  /\ status = "index of coords" => answer = query
  /\ status = "coords" =>
       \A j \in 0..(table_size_of(elements) - 1) :
         j # query => get_coords(elements, j) # answer

C18_Witness ==
  /\ status = "index of coords"
  /\ options.num_dims > 1
  /\ options.level > 1
  /\ query = table_size_of(elements) - 1
  /\ table_size_of(elements) > 2 * options.num_dims

----------------------------------------------------------------------------
(* get_1d_index: the index of a (level, cell) pair of one dimension         *)

MaxIndexLevel == 5   \* levels of the pairs handed to get_1d_index

\* variant: the levels start at 2^(level - 1)
get_1d_index_HalfLevel(level, cell) ==
  IF level = 0 THEN 0 ELSE Pow2(level - 1) + cell

get_1d_index(level, cell) ==
  IF level = 0 THEN 0 ELSE Pow2(level) - 1 + cell

\* the valid pairs up to a level: cell in [0, 2^level)
ValidPairs(max_level) ==
  {pair \in (0..max_level) \X (0..(Pow2(max_level) - 1)) :
     pair[2] < Pow2(pair[1])}

IndexInit ==
  /\ NoSystem
  /\ NoSteps
  /\ query \in ValidPairs(MaxIndexLevel)
  /\ answer = <<>>
  /\ status = "pair"
  /\ options = [num_dims |-> 1, level |-> MaxIndexLevel, full_grid |-> FALSE]
  /\ elements = <<>>
  /\ lookup = <<>>
  /\ table_size = 1
  /\ num_ranks = 1
  /\ plan = NoPlan
  /\ Idle
  /\ NoTasks
  /\ NoSizes
  /\ NoWorld
  /\ NoSchedule
  /\ NoFailures

Get1dIndex ==
  /\ status = "pair"
  /\ answer' = get_1d_index(query[1], query[2])
  /\ status' = "id"
  /\ UNCHANGED <<implicitvars, stepvars, table_size, num_ranks, plan, runvars, taskvars, sizevars,
                 worldvars, schedvars, failvars, options, elements, lookup,
                 query>>

IndexNext == Get1dIndex

IndexSpec == IndexInit /\ [][IndexNext]_vars

\* the valid pairs that come before pair, level by level and cell by cell
PairsBefore(pair) ==
  {other \in ValidPairs(pair[1]) :
     other[1] < pair[1] \/ (other[1] = pair[1] /\ other[2] < pair[2])}

----------------------------------------------------------------------------
(* transformations.cpp: combine_dimensions over an element range            *)

MaxCombineTable == 17   \* sizes of the tables handed to combine_dimensions
MaxCombineDegree == 2   \* degrees handed to combine_dimensions
MaxTimeScale == 2       \* time scales handed to combine_dimensions

\* v.extract(first, last)
extract(v, first, last) ==
  [k \in 0..(last - first) |-> ReadAt(v, first + k)]

\* a.single_column_kron(b): the Kronecker product of two vectors
single_column_kron(a, b) ==
  [k \in 0..(VectorSize(a) * VectorSize(b) - 1) |->
     a[k \div VectorSize(b)] * b[k % VectorSize(b)]]

RECURSIVE kron_d(_, _)
kron_d(operands, num_prods) ==
  IF num_prods = 1 THEN operands[1]
  ELSE IF num_prods = 2 THEN single_column_kron(operands[1], operands[2])
  ELSE single_column_kron(kron_d(operands, num_prods - 1),
                          operands[num_prods])

\* v with sub stored from index at on
set_subvector(v, at, sub) ==
  [k \in DOMAIN v |->
     IF k >= at /\ k < at + VectorSize(sub) THEN sub[k - at] ELSE v[k]]

\* the subvectors of the dimensions of the element with these coordinates
kron_list(degree, coords, vectors) ==
  LET num_dims == Len(vectors)
  IN  [j \in 1..num_dims |->
         LET id          == get_1d_index(coords[j], coords[j + num_dims])
             index_start == id * degree
             index_end   == IF degree > 1 THEN ((id + 1) * degree) - 1
                            ELSE index_start
         IN  extract(vectors[j], index_start, index_end)]

\* kron_d(kron_list, kron_list.size()) * time_scale
partial_result(degree, coords, vectors, time_scale) ==
  LET product == kron_d(kron_list(degree, coords, vectors), Len(vectors))
  IN  [k \in DOMAIN product |-> product[k] * time_scale]

\* variant: the element is placed by its index in the table
combined_offset_Absolute(i, start_element, elem) == i * elem

\* where the values of element i go: (i - start_element) * degree^num_dims
combined_offset(i, start_element, elem) == (i - start_element) * elem

RECURSIVE combine_loop(_, _, _, _, _, _, _, _)
\* for (i = start_element; i <= stop_element; ++i), from i on
combine_loop(combined, i, degree, table, start, stop, vectors, scale) ==
  IF i > stop THEN combined
  ELSE combine_loop(
         set_subvector(combined,
                       combined_offset(i, start, Pow(degree, Len(vectors))),
                       partial_result(degree, get_coords(table, i), vectors,
                                      scale)),
         i + 1, degree, table, start, stop, vectors, scale)

\* the assertions of combine_dimensions
combine_dimensions_asserts(table, start_element, stop_element, vectors) ==
  /\ Len(vectors) > 0
  /\ start_element >= 0
  /\ stop_element >= start_element
  /\ stop_element < table_size_of(table)

combine_dimensions(degree, table, start, stop, vectors, time_scale) ==
  LET vector_size == (stop - start + 1) * Pow(degree, Len(vectors))
  IN  combine_loop([k \in 0..(vector_size - 1) |-> 0], start, degree,
                   table, start, stop, vectors, time_scale)

\* the 1-d vectors of test_combine_dimensions: consecutive numbers from 1
\* on, vect_size = dims * 2^lev of them in every dimension
test_vectors(opts, degree) ==
  LET length == opts.num_dims * Pow2(opts.level)
  IN  [j \in 1..opts.num_dims |->
         [k \in 0..(length - 1) |-> 1 + (j - 1) * length + k]]

\* the loop of test_combine_dimensions over the plan: the result of every
\* rank's row band is stored at its row offset
RECURSIVE test_loop(_, _, _, _, _, _, _)
test_loop(test, rank, p, degree, table, vectors, time_scale) ==
  IF rank = plan_size(p) THEN test
  ELSE test_loop(
         set_subvector(test,
                       p[rank].row_start * Pow(degree, Len(vectors)),
                       combine_dimensions(degree, table, p[rank].row_start,
                                          p[rank].row_stop, vectors,
                                          time_scale)),
         rank + 1, p, degree, table, vectors, time_scale)

CombineInit ==
  /\ NoSystem
  /\ NoSteps
  /\ options \in [num_dims : 1..MaxTableDims, level : 0..MaxTableLevel,
                  full_grid : BOOLEAN]
  /\ Len(element_table(options)) <= MaxCombineTable
  /\ elements = element_table(options)
  /\ lookup = inverse_map(elements, Len(elements))
  /\ query \in [degree : 1..MaxCombineDegree, time_scale : 1..MaxTimeScale]
  /\ answer = <<>>
  /\ status = "vectors"
  /\ table_size = Len(elements)
  /\ num_ranks = 1
  /\ plan = NoPlan
  /\ Idle
  /\ NoTasks
  /\ NoSizes
  /\ NoWorld
  /\ NoSchedule
  /\ NoFailures

CombineDimensions ==
  /\ status = "vectors"
  /\ \E start_element, stop_element \in (-1)..table_size :
       /\ combine_dimensions_asserts(elements, start_element, stop_element,
                                     test_vectors(options, query.degree))
       /\ answer' = [start_element |-> start_element,
                     stop_element |-> stop_element,
                     combined |-> combine_dimensions(
                        query.degree, elements, start_element, stop_element,
                        test_vectors(options, query.degree),
                        query.time_scale)]
  /\ status' = "combined"
  /\ UNCHANGED <<implicitvars, stepvars, table_size, num_ranks, plan, runvars, taskvars, sizevars,
                 worldvars, schedvars, failvars, options, elements, lookup,
                 query>>

RejectCombine ==
  /\ status = "vectors"
  /\ \E start_element, stop_element \in (-1)..table_size :
       /\ ~combine_dimensions_asserts(elements, start_element, stop_element,
                                      test_vectors(options, query.degree))
       /\ answer' = [start_element |-> start_element,
                     stop_element |-> stop_element]
  /\ status' = "rejected"
  /\ UNCHANGED <<implicitvars, stepvars, table_size, num_ranks, plan, runvars, taskvars, sizevars,
                 worldvars, schedvars, failvars, options, elements, lookup,
                 query>>

\* test_combine_dimensions: get_plan, then the loop over the plan
TestCombineDimensions ==
  /\ status = "vectors"
  /\ \E ranks \in 1..MaxRanks :
       /\ get_plan_accepts(ranks, table_size)
       /\ num_ranks' = ranks
       /\ plan' = get_plan(ranks, table_size)
       /\ answer' = [test |->
            test_loop([k \in 0..(table_size
                                   * Pow(query.degree, options.num_dims) - 1)
                         |-> 0],
                      0, get_plan(ranks, table_size), query.degree, elements,
                      test_vectors(options, query.degree), query.time_scale)]
  /\ status' = "assembled"
  /\ UNCHANGED <<implicitvars, stepvars, table_size, runvars, taskvars, sizevars, worldvars,
                 schedvars, failvars, options, elements, lookup, query>>

CombineNext == CombineDimensions \/ RejectCombine \/ TestCombineDimensions

CombineSpec == CombineInit /\ [][CombineNext]_vars

\* combine_dimensions over the whole table [0, N-1]
WholeTable ==
  combine_dimensions(query.degree, elements, 0, table_size - 1,
                     test_vectors(options, query.degree), query.time_scale)

\* C20. Partition consistency of combine_dimensions: for every element range
\* [start, stop] of the table the result equals the entries
\* [start * degree^d, (stop + 1) * degree^d - 1] of the result over the whole
\* table; hence the results of the row bands of any plan, written at their
\* row offsets, reproduce the full vector.
C20_PartitionConsistency ==
  /\ status = "combined" =>
       answer.combined =
         extract(WholeTable,
                 answer.start_element * Pow(query.degree, options.num_dims),
                 (answer.stop_element + 1)
                   * Pow(query.degree, options.num_dims) - 1)
  /\ status = "assembled" => answer.test = WholeTable

C20_Witness ==
  /\ status = "combined"
  /\ options.num_dims > 1
  /\ query.degree > 1
  /\ query.time_scale > 1
  /\ answer.start_element > 0
  /\ answer.stop_element > answer.start_element
  /\ answer.stop_element < table_size - 1

----------------------------------------------------------------------------
(* time_advance: explicit_time_advance, one call on every rank of the plan. *)
(* A buffer holds a description of its content; reduce_results and          *)
(* exchange_results are entered (the rank hands over its buffer) and then   *)
(* returned from (the buffers of the peers are there).                      *)

MaxAdvanceRanks == 4   \* rank counts of the explicit time step

\* a vector that was never written
Unset == [content |-> "unset"]

\* the solution vector: x_orig plus the scaled results added to it
Solution(terms) == [content |-> "x", terms |-> terms]

\* fx as apply_A leaves it: the operator applied to x on the rank's subgrid
Applied(x) == [content |-> "fx", x |-> x, reduced |-> FALSE, sources |-> <<>>, exchanged |-> FALSE]

\* a vector put together from parts that do not describe the same content
Mixed == [content |-> "mixed"]

\* what a rank holds when every one of the parts it combines is the same
Combined(parts) == IF Cardinality(parts) = 1 THEN CHOOSE c \in parts : TRUE ELSE Mixed

\* fm::axpy(scaled_source, reduced_fx) with the sources scaled for a time
add_sources(v, time) == IF v.content = "fx" THEN [v EXCEPT !.sources = Append(@, time)] ELSE Mixed

\* fm::axpy(result, x, scale)
axpy_x(result, x, scale) == IF x.content = "x" THEN Solution(Append(x.terms, <<result, scale>>)) ELSE Mixed

call(name, stage) == [name |-> name, stage |-> stage]

\* variant: the second stage exchanges before it reduces
explicit_time_advance_ExchangeFirst ==
  << call("copy_x_orig", 0),
     call("apply_A", 1), call("reduce_results", 1), call("add_sources", 1),
     call("exchange_results", 1), call("update_x", 1),
     call("apply_A", 2), call("exchange_results", 2), call("reduce_results", 2),
     call("add_sources", 2), call("update_x", 2),
     call("apply_A", 3), call("reduce_results", 3), call("add_sources", 3),
     call("exchange_results", 3), call("update_x", 3) >>

\* the calls of explicit_time_advance in program order
explicit_time_advance ==
  << call("copy_x_orig", 0),
     call("apply_A", 1), call("reduce_results", 1), call("add_sources", 1),
     call("exchange_results", 1), call("update_x", 1),
     call("apply_A", 2), call("reduce_results", 2), call("add_sources", 2),
     call("exchange_results", 2), call("update_x", 2),
     call("apply_A", 3), call("reduce_results", 3), call("add_sources", 3),
     call("exchange_results", 3), call("update_x", 3) >>

\* the time the sources of a stage are scaled for
source_time(stage) == <<"time", "time + c2 * dt", "time + c3 * dt">>[stage]

\* the result vector exchange_results of a stage writes
result_of(stage) == <<"result_1", "result_2", "result_3">>[stage]

\* x after the stage: the axpy calls that follow its exchange_results
update_x(h, stage) ==
  IF stage = 1 THEN axpy_x(h.result_1, h.x, "a21 * dt")
  ELSE IF stage = 2
  THEN axpy_x(h.result_2, axpy_x(h.result_1, h.x_orig, "a31 * dt"), "a32 * dt")
  ELSE axpy_x(h.result_3, axpy_x(h.result_2, axpy_x(h.result_1, h.x_orig, "dt * b1"), "dt * b2"), "dt * b3")

\* the ranks whose reduced_fx a rank reads in exchange_results: the targets
\* of the receive messages of its list (itself where it copies locally)
Suppliers(r) ==
  IF plan_size(plan) = 1 THEN {r}
  ELSE LET list == generate_messages(plan)[r]
       IN  {list[i].target : i \in {j \in DOMAIN list : list[j].message_dir = "receive"}}

NextCall(r) == explicit_time_advance[step_pc[r].index]

AdvanceInit ==
  /\ NoSystem
  /\ num_ranks \in 1..MaxAdvanceRanks
  /\ table_size = num_ranks + 1
  /\ status = "advance"
  /\ plan = get_plan(num_ranks, table_size)
  /\ Idle /\ NoTasks /\ NoSizes /\ NoWorld /\ NoSchedule /\ NoFailures /\ NoTable
  /\ step_pc = [r \in DOMAIN plan |-> [index |-> 1, entered |-> FALSE]]
  /\ host_space = [r \in DOMAIN plan |->
                     [x |-> Solution(<<>>), x_orig |-> Unset, fx |-> Unset, reduced_fx |-> Unset,
                      result_1 |-> Unset, result_2 |-> Unset, result_3 |-> Unset]]
  /\ contributed = [r \in DOMAIN plan |-> <<>>]
  /\ sent = [r \in DOMAIN plan |-> <<>>]
  /\ step_log = [r \in DOMAIN plan |-> <<>>]

\* the rank returns from its call and goes on to the next one
Returned(r) ==
  /\ step_pc' = [step_pc EXCEPT ![r] = [index |-> @.index + 1, entered |-> FALSE]]
  /\ step_log' = [step_log EXCEPT ![r] = Append(@, NextCall(r))]

Calls(r, name) ==
  /\ status = "advance"
  /\ step_pc[r].index <= Len(explicit_time_advance)
  /\ NextCall(r).name = name

\* fm::copy(host_space.x, host_space.x_orig)
CopyXOrig(r) ==
  /\ Calls(r, "copy_x_orig")
  /\ host_space' = [host_space EXCEPT ![r].x_orig = host_space[r].x]
  /\ Returned(r)
  /\ UNCHANGED <<implicitvars, planvars, runvars, taskvars, sizevars, worldvars, schedvars, failvars, tablevars, contributed, sent>>

\* apply_A: fx from x
ApplyA(r) ==
  /\ Calls(r, "apply_A")
  /\ host_space' = [host_space EXCEPT ![r].fx = Applied(host_space[r].x)]
  /\ Returned(r)
  /\ UNCHANGED <<implicitvars, planvars, runvars, taskvars, sizevars, worldvars, schedvars, failvars, tablevars, contributed, sent>>

\* reduce_results(fx, reduced_fx): the rank enters the reduction of its row
ReduceEnter(r) ==
  /\ Calls(r, "reduce_results")
  /\ ~step_pc[r].entered
  /\ contributed' = [contributed EXCEPT ![r] = Append(@, host_space[r].fx)]
  /\ step_pc' = [step_pc EXCEPT ![r].entered = TRUE]
  /\ UNCHANGED <<implicitvars, planvars, runvars, taskvars, sizevars, worldvars, schedvars, failvars, tablevars, host_space, sent, step_log>>

\* the sum over the row of what its ranks put into their k-th reduction
Reduced(parts) ==
  LET c == Combined(parts)
  IN  IF c.content = "fx" /\ ~c.reduced /\ ~c.exchanged THEN [c EXCEPT !.reduced = TRUE] ELSE Mixed

\* reduce_results returns once every rank of the row has entered it
ReduceReturn(r) ==
  /\ Calls(r, "reduce_results")
  /\ step_pc[r].entered
  /\ LET k == Len(contributed[r])
     IN  /\ \A q \in RowBand(r) : Len(contributed[q]) >= k
         /\ host_space' = [host_space EXCEPT
                             ![r].reduced_fx = Reduced({contributed[q][k] : q \in RowBand(r)})]
  /\ Returned(r)
  /\ UNCHANGED <<implicitvars, planvars, runvars, taskvars, sizevars, worldvars, schedvars, failvars, tablevars, contributed, sent>>

\* scale_sources and fm::axpy(scaled_source, reduced_fx)
AddSources(r) ==
  /\ Calls(r, "add_sources")
  /\ host_space' = [host_space EXCEPT
                      ![r].reduced_fx = add_sources(@, source_time(NextCall(r).stage))]
  /\ Returned(r)
  /\ UNCHANGED <<implicitvars, planvars, runvars, taskvars, sizevars, worldvars, schedvars, failvars, tablevars, contributed, sent>>

\* exchange_results(reduced_fx, result_k): the rank hands over its reduced_fx
ExchangeEnter(r) ==
  /\ Calls(r, "exchange_results")
  /\ ~step_pc[r].entered
  /\ sent' = [sent EXCEPT ![r] = Append(@, host_space[r].reduced_fx)]
  /\ step_pc' = [step_pc EXCEPT ![r].entered = TRUE]
  /\ UNCHANGED <<implicitvars, planvars, runvars, taskvars, sizevars, worldvars, schedvars, failvars, tablevars, host_space, contributed, step_log>>

\* the vector put together from the ranges received and copied
Exchanged(parts) ==
  LET c == Combined(parts)
  IN  IF c.content = "fx" /\ ~c.exchanged THEN [c EXCEPT !.exchanged = TRUE] ELSE Mixed

\* exchange_results returns once the rank has the ranges of its k-th
\* exchange from every rank it receives from (messages of a pair of ranks
\* do not overtake each other)
ExchangeReturn(r) ==
  /\ Calls(r, "exchange_results")
  /\ step_pc[r].entered
  /\ LET k == Len(sent[r])
         v == Exchanged({sent[q][k] : q \in Suppliers(r)})
     IN  /\ \A q \in Suppliers(r) : Len(sent[q]) >= k
         /\ host_space' = [host_space EXCEPT ![r] = [@ EXCEPT ![result_of(NextCall(r).stage)] = v]]
  /\ Returned(r)
  /\ UNCHANGED <<implicitvars, planvars, runvars, taskvars, sizevars, worldvars, schedvars, failvars, tablevars, contributed, sent>>

\* the fm::copy and fm::axpy calls on x after the exchange of a stage
UpdateX(r) ==
  /\ Calls(r, "update_x")
  /\ host_space' = [host_space EXCEPT ![r].x = update_x(host_space[r], NextCall(r).stage)]
  /\ Returned(r)
  /\ UNCHANGED <<implicitvars, planvars, runvars, taskvars, sizevars, worldvars, schedvars, failvars, tablevars, contributed, sent>>

AdvanceNext ==
  \/ \E r \in Ranks : CopyXOrig(r)
  \/ \E r \in Ranks : ApplyA(r)
  \/ \E r \in Ranks : ReduceEnter(r)
  \/ \E r \in Ranks : ReduceReturn(r)
  \/ \E r \in Ranks : AddSources(r)
  \/ \E r \in Ranks : ExchangeEnter(r)
  \/ \E r \in Ranks : ExchangeReturn(r)
  \/ \E r \in Ranks : UpdateX(r)

AdvanceSpec == AdvanceInit /\ [][AdvanceNext]_vars

\* position of a call in the calls a rank has returned from, 0 if not there
PositionOf(r, name, stage) ==
  LET hits == {i \in DOMAIN step_log[r] : step_log[r][i] = call(name, stage)}
  IN  IF hits = {} THEN 0 ELSE CHOOSE i \in hits : \A j \in hits : i <= j

\* b has run only if a has run before it
Before(r, a, sa, b, sb) ==
  PositionOf(r, b, sb) # 0 =>
    (PositionOf(r, a, sa) # 0 /\ PositionOf(r, a, sa) < PositionOf(r, b, sb))

\* the vector exchange_results of a stage must deliver, given the x of the
\* stage: apply_A, row reduction, the sources of the stage, exchange
StageResult(stage, x) ==
  [content |-> "fx", x |-> x, reduced |-> TRUE, sources |-> <<source_time(stage)>>, exchanged |-> TRUE]

StageResult1 == StageResult(1, Solution(<<>>))
StageX1 == Solution(<< <<StageResult1, "a21 * dt">> >>)
StageResult2 == StageResult(2, StageX1)
StageX2 == Solution(<< <<StageResult1, "a31 * dt">>, <<StageResult2, "a32 * dt">> >>)
StageResult3 == StageResult(3, StageX2)

\* C21: in every stage of explicit_time_advance a rank runs apply_A, then
\* reduce_results, then the source addition, then exchange_results; it
\* enters no exchange before its reduction of the stage has returned, and
\* apply_A of the next stage runs after the exchange of the stage before
\* and the update of x from it.  So every result_k a rank holds is the
\* exchanged, sourced, row-reduced apply_A of the x of stage k, on every
\* rank it was put together from.
C21_StageOrdering ==
  status = "advance" =>
    \A r \in Ranks :
      /\ \A k \in 1..3 :
           /\ Before(r, "apply_A", k, "reduce_results", k)
           /\ Before(r, "reduce_results", k, "add_sources", k)
           /\ Before(r, "add_sources", k, "exchange_results", k)
           /\ Before(r, "exchange_results", k, "update_x", k)
           /\ k < 3 => Before(r, "update_x", k, "apply_A", k + 1)
           /\ Len(sent[r]) >= k => PositionOf(r, "reduce_results", k) # 0
      /\ host_space[r].result_1 \in {Unset, StageResult1}
      /\ host_space[r].result_2 \in {Unset, StageResult2}
      /\ host_space[r].result_3 \in {Unset, StageResult3}
      /\ host_space[r].fx \in {Unset, Applied(Solution(<<>>)), Applied(StageX1), Applied(StageX2)}

\* four ranks: rank 0 has finished the step with the three results, while
\* rank 3 is still inside the exchange of the third stage
C21_Witness ==
  /\ status = "advance"
  /\ plan_size(plan) = 4
  /\ step_pc[0].index > Len(explicit_time_advance)
  /\ host_space[0].result_3 = StageResult3
  /\ PositionOf(3, "exchange_results", 3) = 0
  /\ Len(sent[3]) = 3

----------------------------------------------------------------------------
(* distribution.cpp: find_column_dependencies on the boundaries that        *)
(* generate_messages takes from a plan.                                     *)

MaxDependRanks == 12   \* rank counts of the plans
MaxDependTable == 14   \* table sizes of the plans

DependInit ==
  /\ NoSystem
  /\ NoSteps
  /\ num_ranks \in 1..MaxDependRanks
  /\ table_size \in 2..MaxDependTable
  /\ get_plan_accepts(num_ranks, table_size)
  /\ plan = get_plan(num_ranks, table_size)
  /\ status = "boundaries"
  /\ query = [row_boundaries |-> row_boundaries_of(plan),
              col_boundaries |-> col_boundaries_of(plan)]
  /\ answer = <<>>
  /\ options = [num_dims |-> 1, level |-> 0, full_grid |-> FALSE]
  /\ elements = <<>>
  /\ lookup = <<>>
  /\ Idle
  /\ NoTasks
  /\ NoSizes
  /\ NoWorld
  /\ NoSchedule
  /\ NoFailures

\* generate_messages calls find_column_dependencies(row_boundaries,
\* col_boundaries)
FindColumnDependencies ==
  /\ status = "boundaries"
  /\ answer' = find_column_dependencies(query.row_boundaries, query.col_boundaries)
  /\ status' = "dependencies"
  /\ UNCHANGED <<implicitvars, table_size, num_ranks, plan, runvars, taskvars, sizevars, worldvars, schedvars, failvars, stepvars, options, elements, lookup, query>>

\* the indices of a band (1-based position in its list of stop indices)
BandRange(boundaries, b) == BandStart(boundaries, b)..boundaries[b]

\* C22. Column dependencies: for every column band c the map returned by
\* find_column_dependencies has exactly the row bands whose range
\* intersects the range of c, each once, with the sub-range
\* [max(starts), min(stops)]; the sub-ranges are non-empty, pairwise
\* disjoint, and their union is the range of c.
C22_ColumnDependencies ==
  status = "dependencies" =>
    LET rows == query.row_boundaries
        cols == query.col_boundaries
    IN  /\ Len(answer) = Len(cols)
        /\ \A c \in 1..Len(cols) :
             LET deps == answer[c]
                 Sub(j) == deps[j].limits.start..deps[j].limits.stop
             IN  /\ {deps[j].row : j \in DOMAIN deps} =
                      {r - 1 : r \in {q \in 1..Len(rows) :
                         BandRange(rows, q) \cap BandRange(cols, c) # {}}}
                 /\ \A i, j \in DOMAIN deps : deps[i].row = deps[j].row => i = j
                 /\ \A j \in DOMAIN deps :
                      /\ deps[j].limits.start =
                           Max(BandStart(rows, deps[j].row + 1), BandStart(cols, c))
                      /\ deps[j].limits.stop =
                           Min(rows[deps[j].row + 1], cols[c])
                      /\ deps[j].limits.start <= deps[j].limits.stop
                 /\ \A i, j \in DOMAIN deps : i # j => Sub(i) \cap Sub(j) = {}
                 /\ UNION {Sub(j) : j \in DOMAIN deps} = BandRange(cols, c)

\* a plan with more row bands than column bands: a column band that lies
\* across three row bands, and a row band cut by two column bands
C22_Witness ==
  /\ status = "dependencies"
  /\ Len(query.col_boundaries) < Len(query.row_boundaries)
  /\ \E c \in DOMAIN answer : Len(answer[c]) = 3
  /\ \E c, d \in DOMAIN answer :
       /\ c # d
       /\ \E i \in DOMAIN answer[c], j \in DOMAIN answer[d] :
            answer[c][i].row = answer[d][j].row

----------------------------------------------------------------------------
(* Claims about the lists of the exchange, checked under RunSpec            *)

\* the row band of rank q holds the range in its reduced vector
RowOwns(q, range) ==
  plan[q].row_start <= range.start /\ range.stop <= plan[q].row_stop

\* the rank that takes the range of entry m of the list of rank r
Receiver(r, m) == IF m.message_dir = "receive" THEN r ELSE m.target

\* the entries of a direction the loops have gone past so far whose target
\* is another rank
PastNetworkEntries(dir) ==
  UNION {{<<r, i>> : i \in {j \in 1..(msg_index[r] - 1) :
                              /\ j <= Len(my_messages[r])
                              /\ my_messages[r][j].message_dir = dir
                              /\ my_messages[r][j].target # r}} : r \in Ranks}

\* C23. Sender choice: an entry of a list of generate_messages has the rank
\* of the list as target exactly when the row band of the receiving rank
\* owns the range; exchange_results makes no MPI_Send or MPI_Recv for such
\* an entry and one for every other entry; a network entry has its sender
\* in the row band that owns the range and its receiver in another one.
C23_SenderChoice ==
  status = "exchange" =>
    /\ \A r \in Ranks : \A i \in DOMAIN my_messages[r] :
         LET m == my_messages[r][i]
         IN  /\ m.target = r <=> RowOwns(Receiver(r, m), m.range)
             /\ m.target # r =>
                  /\ m.target \in Ranks
                  /\ LET sender == IF m.message_dir = "send" THEN r ELSE m.target
                     IN  /\ RowOwns(sender, m.range)
                         /\ ~RowOwns(Receiver(r, m), m.range)
                         /\ RowBand(sender) # RowBand(Receiver(r, m))
    /\ calls.send = Cardinality(PastNetworkEntries("send"))
    /\ calls.receive = Cardinality(PastNetworkEntries("receive"))

\* the exchange of a plan of several row bands is over: a rank has gone
\* past entries it copied and past entries it sent and received
C23_Witness ==
  /\ status = "exchange"
  /\ AllDone
  /\ \E r \in Ranks :
       /\ \E i \in DOMAIN my_messages[r] : my_messages[r][i].target = r
       /\ \E i \in DOMAIN my_messages[r] :
            my_messages[r][i].target # r /\ my_messages[r][i].message_dir = "send"
       /\ \E i \in DOMAIN my_messages[r] :
            my_messages[r][i].target # r /\ my_messages[r][i].message_dir = "receive"
  /\ calls.send > 0
  /\ calls.send = calls.receive

----------------------------------------------------------------------------
(* Claims about the lists generate_messages returned, checked under         *)
(* ScheduleSpec                                                             *)

\* the number of entries of the list of rank q that make it call MPI_Send
NetworkSends(lists, q) ==
  Cardinality({i \in DOMAIN lists[q] :
                 lists[q][i].message_dir = "send" /\ lists[q][i].target # q})

\* C24. Send balance: in the lists of generate_messages the numbers of
\* network send messages of any two ranks of a row band differ by at most
\* one.
C24_SendBalance ==
  status = "schedule" =>
    \A lists \in schedules : \A q, t \in Ranks :
      RowBand(q) = RowBand(t) =>
        NetworkSends(lists, q) - NetworkSends(lists, t) \in {-1, 0, 1}

\* a plan with several column bands and a row band whose wheel has gone
\* round: each of its ranks sends at least twice
C24_Witness ==
  /\ status = "schedule"
  /\ get_num_subgrid_cols(plan_size(plan)) > 1
  /\ \E lists \in schedules : \E q \in Ranks :
       \A t \in RowBand(q) : NetworkSends(lists, t) >= 2

----------------------------------------------------------------------------
(* mpi_instructions: the standalone message schedule, built from r_stop     *)
(* and c_stop by the constructor.                                           *)

mpi_node_and_range(linear_index, start, stop) ==
  [linear_index |-> linear_index, start |-> start, stop |-> stop]

mpi_message(mpi_message_type, nar) ==
  [mpi_message_type |-> mpi_message_type, nar |-> nar]

\* for every column interval, the row intervals that meet it, in row order
gen_row_space_intervals(r_stop, c_stop) ==
  [c \in 1..Len(c_stop) |->
     LET c_start == BandStart(c_stop, c)
         c_end   == c_stop[c]
         Entry(r) ==
           LET r_start == BandStart(r_stop, r)
               r_end   == r_stop[r]
           IN  [nar |-> mpi_node_and_range(r - 1, Max(r_start, c_start), Min(r_end, c_end)),
                hit |-> \/ (c_start >= r_start /\ c_start <= r_end)
                        \/ (r_start >= c_start /\ r_start <= c_end)]
         Hit(e) == e.hit
         Nar(e) == e.nar
         hits == SelectSeq([r \in 1..Len(r_stop) |-> Entry(r)], Hit)
     IN  [j \in DOMAIN hits |-> hits[j].nar]]

\* body of the innermost loop of gen_mpi_messages: the wheel spun is the
\* one at index r, the row of the receiving node
queue_pair(st, c, nar, r, num_cols) ==
  LET receiving_linear_index == r * num_cols + c
      local             == nar.linear_index = r
      from_linear_index == IF local THEN receiving_linear_index
                           ELSE nar.linear_index * num_cols + spin_value(st.wheels[r])
      wheels1           == IF local THEN st.wheels
                           ELSE [st.wheels EXCEPT ![r] = spin_next(@, num_cols)]
      incoming_message  == mpi_message("receive",
                             mpi_node_and_range(from_linear_index, nar.start, nar.stop))
      outgoing_message  == mpi_message("send",
                             mpi_node_and_range(receiving_linear_index, nar.start, nar.stop))
      messages1         == [st.messages EXCEPT
                              ![receiving_linear_index] = Append(@, incoming_message)]
      messages2         == [messages1 EXCEPT
                              ![from_linear_index] = Append(@, outgoing_message)]
  IN  [wheels |-> wheels1, messages |-> messages2]

\* for (r = 0; r < r_stop.size(); r++)
RECURSIVE node_loop(_, _, _, _, _, _)
node_loop(st, c, nar, r, num_rows, num_cols) ==
  IF r = num_rows THEN st
  ELSE node_loop(queue_pair(st, c, nar, r, num_cols), c, nar, r + 1, num_rows, num_cols)

\* for (j = 0; j < nar_vec.size(); j++)
RECURSIVE nar_loop(_, _, _, _, _, _)
nar_loop(st, c, nar_vec, j, num_rows, num_cols) ==
  IF j > Len(nar_vec) THEN st
  ELSE nar_loop(node_loop(st, c, nar_vec[j], 0, num_rows, num_cols),
                c, nar_vec, j + 1, num_rows, num_cols)

\* for (c = 0; c < row_space_intervals.size(); c++)
RECURSIVE interval_loop(_, _, _, _, _)
interval_loop(st, row_space_intervals, c, num_rows, num_cols) ==
  IF c = Len(row_space_intervals) THEN st
  ELSE interval_loop(nar_loop(st, c, row_space_intervals[c + 1], 1, num_rows, num_cols),
                     row_space_intervals, c + 1, num_rows, num_cols)

gen_mpi_messages(row_space_intervals, r_stop, c_stop) ==
  LET num_rows == Len(r_stop)
      num_cols == Len(c_stop)
      start == [wheels   |-> [i \in 0..(num_rows - 1) |-> 0],
                messages |-> [i \in 0..(num_rows * num_cols - 1) |-> <<>>]]
  IN  interval_loop(start, row_space_intervals, 0, num_rows, num_cols).messages

\* the constructor: node -> its list of messages
mpi_instructions(r_stop, c_stop) ==
  gen_mpi_messages(gen_row_space_intervals(r_stop, c_stop), r_stop, c_stop)

\* mpi_instructions(r_stop, c_stop) on the boundaries of the plan, next to
\* generate_messages(plan)
MpiInstructions ==
  /\ status = "boundaries"
  /\ answer' = [mpi_instruction |-> mpi_instructions(query.row_boundaries, query.col_boundaries),
                message_lists   |-> generate_messages(plan)]
  /\ status' = "messages"
  /\ UNCHANGED <<implicitvars, table_size, num_ranks, plan, runvars, taskvars, sizevars, worldvars, schedvars, failvars, stepvars, options, elements, lookup, query>>

DependNext == FindColumnDependencies \/ MpiInstructions

DependSpec == DependInit /\ [][DependNext]_vars

\* direction, peer rank and range of a message of either module
OfInstructions(m) == <<m.mpi_message_type, m.nar.linear_index, m.nar.start, m.nar.stop>>
OfDistribution(m) == <<m.message_dir, m.target, m.range.start, m.range.stop>>

\* C25. The two message-schedule implementations do not diverge: for the
\* boundaries of a plan, mpi_instructions and generate_messages give every
\* rank the same ordered list of messages (direction, peer rank, range).
C25_NoDivergence ==
  status = "messages" =>
    /\ DOMAIN answer.mpi_instruction = DOMAIN answer.message_lists
    /\ \A r \in DOMAIN answer.message_lists :
         [i \in DOMAIN answer.mpi_instruction[r] |-> OfInstructions(answer.mpi_instruction[r][i])]
           = [i \in DOMAIN answer.message_lists[r] |-> OfDistribution(answer.message_lists[r][i])]

----------------------------------------------------------------------------
(* time_advance: implicit_time_advance and its function-local statics A,    *)
(* ipiv and first_time.  A is described by the call that built it.          *)

MaxImplicitCalls == 6   \* calls of implicit_time_advance of a run

\* the branch if (first_time || update_system): A is cleared, built and
\* turned into I - dt*A; direct: fm::gesv factors A in place, fills ipiv and
\* the function returns; gmres: first_time = false, then the solve below
build_branch(s, sys, call_no) ==
  [A            |-> [built |-> call_no, factored |-> s = "direct"],
   ipiv         |-> IF s = "direct" THEN call_no ELSE sys.ipiv,
   first_time   |-> IF s = "direct" THEN sys.first_time ELSE FALSE,
   built        |-> TRUE,
   solve        |-> IF s = "direct" THEN "gesv" ELSE "simple_gmres",
   system       |-> call_no,
   pivots       |-> IF s = "direct" THEN call_no ELSE 0]

\* the call that does not enter the branch: fm::getrs with A and ipiv, or
\* solver::simple_gmres with A, as the statics hold them
cached_branch(s, sys) ==
  [A            |-> sys.A,
   ipiv         |-> sys.ipiv,
   first_time   |-> sys.first_time,
   built        |-> FALSE,
   solve        |-> IF s = "direct" THEN "getrs" ELSE "simple_gmres",
   system       |-> sys.A.built,
   pivots       |-> IF s = "direct" THEN sys.ipiv ELSE 0]

\* the statics after the call and what the call did
implicit_time_advance(s, update_system, sys, call_no) ==
  IF sys.first_time \/ update_system
  THEN build_branch(s, sys, call_no)
  ELSE cached_branch(s, sys)

ImplicitInit ==
  /\ status = "implicit"
  /\ solver \in {"direct", "gmres"}
  /\ A = [built |-> 0, factored |-> FALSE]
  /\ ipiv = 0
  /\ first_time = TRUE
  /\ implicit_log = <<>>
  /\ table_size = 1
  /\ num_ranks = 1
  /\ plan = NoPlan
  /\ Idle
  /\ NoTasks
  /\ NoSizes
  /\ NoWorld
  /\ NoSchedule
  /\ NoFailures
  /\ NoTable
  /\ NoSteps

\* one call of implicit_time_advance
ImplicitTimeAdvance ==
  /\ status = "implicit"
  /\ Len(implicit_log) < MaxImplicitCalls
  /\ \E update_system \in BOOLEAN :
       LET call_no == Len(implicit_log) + 1
           end == implicit_time_advance(solver, update_system,
                    [A |-> A, ipiv |-> ipiv, first_time |-> first_time], call_no)
       IN  /\ A' = end.A
           /\ ipiv' = end.ipiv
           /\ first_time' = end.first_time
           /\ implicit_log' = Append(implicit_log,
                [update_system |-> update_system, built |-> end.built,
                 solve |-> end.solve, system |-> end.system, pivots |-> end.pivots])
  /\ UNCHANGED <<planvars, runvars, taskvars, sizevars, worldvars, schedvars, failvars, tablevars, stepvars, solver>>

ImplicitNext == ImplicitTimeAdvance

ImplicitSpec == ImplicitInit /\ [][ImplicitNext]_vars

\* the last call up to call i that had to build the system
LastBuild(i) ==
  CHOOSE j \in 1..i :
    /\ j = 1 \/ implicit_log[j].update_system
    /\ \A k \in (j + 1)..i : ~implicit_log[k].update_system

\* C26. Cached implicit system: implicit_time_advance builds A on its first
\* call and on every call with update_system = true; a later call with
\* update_system = false does not build A and solves with the system of the
\* last build (direct: fm::getrs with its factorization and pivots; gmres:
\* the cached A), for both solvers.
C26_CachedSystem ==
  status = "implicit" =>
    \A i \in DOMAIN implicit_log :
      LET c == implicit_log[i]
      IN  IF i = 1 \/ c.update_system
          THEN c.built /\ c.system = i
          ELSE /\ ~c.built
               /\ c.system = LastBuild(i)
               /\ solver = "direct" => (c.solve = "getrs" /\ c.pivots = LastBuild(i))
               /\ solver = "gmres" => c.solve = "simple_gmres"

----------------------------------------------------------------------------
(* transformations.cpp: the memory check of wavelet_to_realspace.  Sizes    *)
(* are exact, in bytes.  Every dimension has the same degree and level.     *)

MaxKronDegree == 5       \* degrees of the dimensions
MaxKronDims == 3         \* numbers of dimensions
MaxKronLevel == 4        \* levels of the dimensions
MaxKronTable == 2        \* table sizes
MaxKronBytes == 4000000  \* largest dense product looked at, in bytes
MaxLimitMB == 3          \* memory limits

\* a * b, or more than cap if the product is more than cap
CappedProduct(a, b, cap) == IF a > cap \div b THEN cap + 1 ELSE a * b

\* the sub_matrix of dimension j: all rows of real_space_transform[j], which
\* is deg_freedom_1d square, and the degree columns of the element
sub_matrix(degree, level) == [nrows |-> degree * Pow2(level), ncols |-> degree]

\* kron_matrices of an element, one sub_matrix per dimension
kron_matrices_of(p, level) == [j \in 1..p.num_dims |-> sub_matrix(p.degree, level)]

RECURSIVE ProductOf(_, _, _)
\* r and c of kron_matrix_MB after the first n matrices
ProductOf(kron_matrices, n, cap) ==
  IF n = 0 THEN [r |-> 1, c |-> 1]
  ELSE LET before == ProductOf(kron_matrices, n - 1, cap)
       IN  [r |-> CappedProduct(before.r, kron_matrices[n].nrows, cap),
            c |-> CappedProduct(before.c, kron_matrices[n].ncols, cap)]

\* bytes of the dense Kronecker product of the matrices
DenseBytes(kron_matrices, element_bytes, cap) ==
  LET p == ProductOf(kron_matrices, Len(kron_matrices), cap)
  IN  CappedProduct(CappedProduct(p.r, p.c, cap), element_bytes, cap)

\* kron_matrix_MB: r * c * sizeof(P) * 1e-6 returned as int
kron_matrix_MB(kron_matrices, element_bytes) ==
  CDiv(DenseBytes(kron_matrices, element_bytes, MaxKronBytes), BytesPerMB)

\* the asserts of wavelet_to_realspace that hold for the call: the one on
\* the limit and the one in the loop, the same for every element
wavelet_to_realspace_asserts(p, level, element_bytes, memory_limit_MB) ==
  /\ memory_limit_MB > 0
  /\ kron_matrix_MB(kron_matrices_of(p, level), element_bytes) <= memory_limit_MB

KronInit ==
  /\ status = "wavelet"
  /\ pde \in [degree : 1..MaxKronDegree, num_dims : 1..MaxKronDims, num_terms : {1}]
  /\ options \in [num_dims : {pde.num_dims}, level : 0..MaxKronLevel, full_grid : {FALSE}]
  /\ sizeof_P \in {4, 8}
  /\ DenseBytes(kron_matrices_of(pde, options.level), sizeof_P, MaxKronBytes) <= MaxKronBytes
  /\ table_size \in 1..MaxKronTable
  /\ query \in [memory_limit_MB : 0..MaxLimitMB]
  /\ answer = <<>>
  /\ rank_size_MB = 1
  /\ elements = <<>>
  /\ lookup = <<>>
  /\ num_ranks = 1
  /\ plan = NoPlan
  /\ Idle
  /\ NoTasks
  /\ NoWorld
  /\ NoSchedule
  /\ NoFailures
  /\ NoSteps
  /\ NoSystem

\* wavelet_to_realspace with its asserts holding: recursive_kron is called
\* for each of the table.size() elements
WaveletToRealspace ==
  /\ status = "wavelet"
  /\ wavelet_to_realspace_asserts(pde, options.level, sizeof_P, query.memory_limit_MB)
  /\ answer' = [recursive_kron |-> table_size]
  /\ status' = "realspace"
  /\ UNCHANGED <<table_size, num_ranks, plan, runvars, taskvars, sizevars, worldvars, schedvars, failvars, stepvars, implicitvars, options, elements, lookup, query>>

\* an assert of wavelet_to_realspace fails: the one on the limit, or the one
\* in the loop at the first element, before any recursive_kron
RejectWavelet ==
  /\ status = "wavelet"
  /\ ~wavelet_to_realspace_asserts(pde, options.level, sizeof_P, query.memory_limit_MB)
  /\ answer' = [recursive_kron |-> 0]
  /\ status' = "rejected"
  /\ UNCHANGED <<table_size, num_ranks, plan, runvars, taskvars, sizevars, worldvars, schedvars, failvars, stepvars, implicitvars, options, elements, lookup, query>>

KronNext == WaveletToRealspace \/ RejectWavelet

KronSpec == KronInit /\ [][KronNext]_vars

\* C27. Kronecker budget check: wavelet_to_realspace calls recursive_kron
\* for an element only if the dense size of the product of its matrices
\* (rows x columns x sizeof(P) bytes) is at most memory_limit_MB megabytes;
\* a larger product fails the assertion before any product is built.
C27_KronBudget ==
  LET bytes == DenseBytes(kron_matrices_of(pde, options.level), sizeof_P, MaxKronBytes)
  IN  /\ status = "realspace" =>
           (answer.recursive_kron > 0 => bytes <= query.memory_limit_MB * BytesPerMB)
      /\ (status \in {"realspace", "rejected"} /\ bytes > query.memory_limit_MB * BytesPerMB) =>
           (status = "rejected" /\ answer.recursive_kron = 0)

----------------------------------------------------------------------------
(* The order of the messages of a pair of ranks, checked under RunSpec      *)

\* the entries of a list with a direction and a peer, in list order
EntriesWith(list, dir, peer) ==
  LET Wanted(m) == m.message_dir = dir /\ m.target = peer
  IN  SelectSeq(list, Wanted)

\* how many entries with a direction and a peer the loop of rank r has gone
\* past
PastWith(r, dir, peer) ==
  Len(EntriesWith(SubSeq(my_messages[r], 1, Min(msg_index[r] - 1, Len(my_messages[r]))),
                  dir, peer))

\* C28. Pairwise order consistency: for every ordered pair of distinct
\* ranks (s, t) the send messages to t in the list of s and the receive
\* messages from s in the list of t are equally many and have the same
\* ranges in the same order; so the data waiting between s and t is, in
\* order, the data of the ranges t has yet to receive from s, and every
\* MPI_Recv takes the data of the send of its own range.
C28_PairwiseOrder ==
  (status = "exchange" /\ plan_size(plan) > 1) =>
    LET lists == generate_messages(plan)
    IN  \A s, t \in Ranks : s # t =>
          LET sends    == EntriesWith(lists[s], "send", t)
              receives == EntriesWith(lists[t], "receive", s)
              taken    == PastWith(t, "receive", s)
          IN  /\ Len(sends) = Len(receives)
              /\ \A k \in DOMAIN sends : sends[k].range = receives[k].range
              /\ Len(chan[<<s, t>>]) = PastWith(s, "send", t) - taken
              /\ \A k \in DOMAIN chan[<<s, t>>] :
                   chan[<<s, t>>][k] =
                     Window(source[s], output_start(plan[s], receives[taken + k]),
                            output_end(plan[s], receives[taken + k]))

\* a rank has sent a range that its peer has yet to receive, and another
\* pair of ranks has finished its message
C28_Witness ==
  /\ status = "exchange"
  /\ plan_size(plan) > 2
  /\ \E s, t \in Ranks :
       /\ s # t
       /\ Len(chan[<<s, t>>]) = 1
       /\ PastWith(s, "send", t) = 1
       /\ PastWith(t, "receive", s) = 0
  /\ \E s, t \in Ranks :
       /\ s # t
       /\ PastWith(s, "send", t) = 1
       /\ PastWith(t, "receive", s) = 1

----------------------------------------------------------------------------
(* main.cpp, program_options.cpp and distribution.cpp: the start of main on *)
(* every process, from the options object to the first use of the plan.     *)
(* world_ops[r] is the list of the transport calls and communicator         *)
(* queries of the process, each with whether MPI_Init had been called.      *)

MaxStartRanks == 3   \* processes of MPI_COMM_WORLD

\* the steps of main on rank r for a command line cl, in program order.
\* parser::parser exits for --help; an MPI call made before MPI_Init is
\* erroneous and may end the process (cl.aborts) or return
main_steps(cl, r) ==
  IF cl.show_help \/ (cl.use_implicit_stepping /\ cl.aborts)
  THEN <<"parser", "exit">>
  ELSE IF ~cl.valid
  THEN <<"parser", "is_valid", "exit">>
  ELSE IF participating(r)
  THEN <<"parser", "is_valid", "MPI_Init", "MPI_Comm_split", "set_global_comm",
         "get_local_rank", "get_rank", "exit">>
  ELSE <<"parser", "is_valid", "MPI_Init", "MPI_Comm_split",
         "finalize_distribution", "exit">>

StepAt(r) == main_steps(query, r)[world_pc[r]]

\* MPI_Init has been called on the process
Initialised(r) == \E i \in DOMAIN world_ops[r] : world_ops[r][i].call = "MPI_Init"

\* the process makes a transport call or a query of the communicator
Makes(r, name) ==
  world_ops' = [world_ops EXCEPT
                  ![r] = Append(@, [call |-> name, initialised |-> Initialised(r)])]

\* the queries of the communicator that constructing the options makes: in
\* the MPI build the validation evaluates
\* use_implicit_stepping && get_num_ranks() > 1
parser_queries(cl) ==
  IF ~cl.show_help /\ cl.use_implicit_stepping THEN <<"get_num_ranks">> ELSE <<>>

StartInit ==
  /\ status = "start"
  /\ num_ranks \in 1..MaxStartRanks
  /\ query \in [show_help : BOOLEAN, use_implicit_stepping : BOOLEAN,
                valid : BOOLEAN, aborts : BOOLEAN]
  /\ world_pc = [r \in World |-> 1]
  /\ world_ops = [r \in World |-> <<>>]
  /\ global_comm = [r \in World |-> World]
  /\ world_plan = [r \in World |-> NoPlan]
  /\ finalize_syncs = FALSE
  /\ table_size = num_ranks + 1
  /\ plan = NoPlan
  /\ answer = <<>>
  /\ options = [num_dims |-> 1, level |-> 0, full_grid |-> FALSE]
  /\ elements = <<>>
  /\ lookup = <<>>
  /\ Idle
  /\ NoTasks
  /\ NoSizes
  /\ NoSchedule
  /\ NoFailures
  /\ NoSteps
  /\ NoSystem

StartFrame == UNCHANGED <<planvars, runvars, taskvars, sizevars, schedvars, failvars, tablevars, stepvars, implicitvars, global_comm, world_plan, finalize_syncs>>

\* options opts(argc, argv): parsing and validation
StartParser(r) ==
  /\ status = "start"
  /\ StepAt(r) = "parser"
  /\ world_ops' = [world_ops EXCEPT
       ![r] = @ \o [i \in DOMAIN parser_queries(query) |->
                      [call |-> parser_queries(query)[i], initialised |-> Initialised(r)]]]
  /\ Proceed(r)
  /\ StartFrame

\* if (!opts.is_valid()) exit(-1)
StartIsValid(r) ==
  /\ status = "start"
  /\ StepAt(r) = "is_valid"
  /\ Proceed(r)
  /\ UNCHANGED world_ops
  /\ StartFrame

\* initialize_distribution up to the split: MPI_Init
StartMpiInit(r) ==
  /\ status = "start"
  /\ StepAt(r) = "MPI_Init"
  /\ Makes(r, "MPI_Init")
  /\ Proceed(r)
  /\ StartFrame

\* MPI_Comm_split of MPI_COMM_WORLD returns once every process has called it
StartSplit(r) ==
  /\ status = "start"
  /\ StepAt(r) = "MPI_Comm_split"
  /\ \A q \in World : world_pc[q] >= world_pc[r]
  /\ Makes(r, "MPI_Comm_split")
  /\ Proceed(r)
  /\ StartFrame

\* distro_handle.set_global_comm(effective_communicator)
StartSetComm(r) ==
  /\ status = "start"
  /\ StepAt(r) = "set_global_comm"
  /\ \A q \in effective_communicator : world_pc[q] >= world_pc[r]
  /\ Makes(r, "set_global_comm")
  /\ Proceed(r)
  /\ StartFrame

\* initialize_libraries(get_local_rank()), the end of initialize_distribution
StartLocalRank(r) ==
  /\ status = "start"
  /\ StepAt(r) = "get_local_rank"
  /\ \A q \in effective_communicator : world_pc[q] >= world_pc[r]
  /\ Makes(r, "get_local_rank")
  /\ Proceed(r)
  /\ StartFrame

\* if (my_rank >= num_ranks) { finalize_distribution(); return 0; }
StartFinalize(r) ==
  /\ status = "start"
  /\ StepAt(r) = "finalize_distribution"
  /\ Makes(r, "MPI_Finalize")
  /\ Proceed(r)
  /\ StartFrame

\* plan.at(get_rank())
StartGetRank(r) ==
  /\ status = "start"
  /\ StepAt(r) = "get_rank"
  /\ Makes(r, "get_rank")
  /\ Proceed(r)
  /\ StartFrame

StartNext ==
  \/ \E r \in World : StartParser(r)
  \/ \E r \in World : StartIsValid(r)
  \/ \E r \in World : StartMpiInit(r)
  \/ \E r \in World : StartSplit(r)
  \/ \E r \in World : StartSetComm(r)
  \/ \E r \in World : StartLocalRank(r)
  \/ \E r \in World : StartFinalize(r)
  \/ \E r \in World : StartGetRank(r)

StartSpec == StartInit /\ [][StartNext]_vars

CommunicatorQueries == {"get_num_ranks", "get_rank", "get_local_rank"}

\* C29. Initialization order: on every path through main no query of the
\* communicator (get_num_ranks, get_rank, get_local_rank) is made before
\* initialize_distribution has called MPI_Init, and constructing the options
\* object makes no such query.
C29_InitOrder ==
  status = "start" =>
    \A r \in World :
      /\ \A i \in DOMAIN world_ops[r] :
           world_ops[r][i].call \in CommunicatorQueries => world_ops[r][i].initialised
      /\ (world_pc[r] = 2 /\ ~query.show_help) => world_ops[r] = <<>>

----------------------------------------------------------------------------
(* transformations.cpp: the 1-d blocks combine_dimensions and               *)
(* wavelet_to_realspace take for the elements of the table                  *)

\* gen_realspace_transform: the rows and the columns of the matrix of a
\* dimension, degree * two_raised_to(level)
deg_freedom_1d(degree, level) == degree * Pow2(level)

\* id, id * degree and (id + 1) * degree - 1 of dimension j of an element
block_of(degree, coords, j, num_dims) ==
  LET id == get_1d_index(coords[j], coords[j + num_dims])
  IN  [id |-> id, first |-> id * degree, last |-> (id + 1) * degree - 1]

====
